---- MODULE Spec2Model ----
(***************************************************************************)
(* MailMinder: the action-item extraction subsystem (mailminder/actions.py)*)
(* and the text normalizer (mailminder/preprocess.py), the summarizer      *)
(* (mailminder/summarizer.py), the cleaning of raw Gmail messages, the     *)
(* action_items table (mailminder/db.py) and GET /health (app/api.py).     *)
(*                                                                         *)
(* Python str values are TLA+ strings; Len, SubSeq and \o act on them as   *)
(* len(), slicing and + do.  The characters are ASCII, where str.lower()   *)
(* and str.strip() act character by character.                             *)
(***************************************************************************)
EXTENDS Integers, Sequences, FiniteSets, TLC

VARIABLES
    pc,        \* position of the call under study
    items,     \* normalize_items: the list passed in
    result,    \* normalize_items: what the call returned
    again,     \* normalize_items applied to its own output
    body,          \* extract_actions: the body text
    summary_json,  \* extract_actions: the summary result
    heur,          \* what fallback_extract_from_body(body) returned
    actions,       \* what extract_actions(summary_json, body=body) returned
    subject,       \* clean_email: the subject passed in
    raw_body,      \* clean_email: the body passed in
    headers,       \* clean_email: the headers passed in
    cleaned,       \* what clean_email returned
    mail,          \* summarizer: the cleaned message handed in
    verdict,       \* what _heuristic_importance returned
    llm,           \* summarize_single_openai: what the model call did
    summarized,    \* what summarize_single_openai returned
    gmsg,          \* clean_gmail_message: the raw Gmail message handed in
    cache,         \* _HEADER_MAP_CACHE
    gclean,        \* what clean_gmail_message returned
    conn,          \* db._CONN and the database it reaches
    table,         \* the rows of action_items
    call,          \* upsert_action_items: the call under study and what it returned
    resp,          \* the response under study
    messages,      \* the rows of messages, by message_id
    api_key,       \* MAILMINDER_API_KEY as read at import, "" when unset
    poll,          \* poll_once: the cycle under study and what it did
    sessions,      \* upsert_action_items: the callers at work at the same time
    now            \* what now() returns

summarizeVars == <<mail, verdict, llm, summarized>>

gmailVars == <<gmsg, cache, gclean>>

dbVars == <<conn, table, call, resp>>

serviceVars == <<messages, api_key, poll, sessions, now>>

vars == <<pc, items, result, again, body, summary_json, heur, actions,
          subject, raw_body, headers, cleaned,
          summarizeVars, gmailVars, dbVars, serviceVars>>

(***************************************************************************)
(* Bounds of the model                                                     *)
(***************************************************************************)
\* longest action_items list handed to normalize_items
MaxItems == 3

\* most paragraphs a body is made of
MaxPieces == 2

\* how far below and above _MAX_CHARS the lengths of the long bodies go
MaxSlack == 2

(***************************************************************************)
(* Characters and the str methods the code uses                            *)
(***************************************************************************)
UpperChars == "ABCDEFGHIJKLMNOPQRSTUVWXYZ"
LowerChars == "abcdefghijklmnopqrstuvwxyz"
Digits == "0123456789"

CharAt(s, i) == SubSeq(s, i, i)

\* The characters of a string, as a set
CharsOf(str) == {CharAt(str, i) : i \in 1..Len(str)}

\* \s of the re module and the characters str.strip() removes
IsSpace(c) == c \in {" ", "\t", "\n", "\r", "\f"}

DigitSet == CharsOf(Digits)

IsDigit(c) == c \in DigitSet

\* \w of the re module
WordSet == CharsOf(UpperChars) \cup CharsOf(LowerChars) \cup DigitSet \cup {"_"}

IsWord(c) == c \in WordSet

\* Each upper-case letter's lower-case letter
LowerOf == [i \in 1..Len(UpperChars) |-> CharAt(LowerChars, i)]

UpperIndex == [c \in CharsOf(UpperChars) |->
                 CHOOSE i \in 1..Len(UpperChars) : CharAt(UpperChars, i) = c]

LowerChar(c) == IF c \in DOMAIN UpperIndex THEN LowerOf[UpperIndex[c]] ELSE c

\* str.lower()
RECURSIVE Lower(_)
Lower(s) ==
    IF Len(s) = 0 THEN ""
    ELSE IF Len(s) = 1 THEN LowerChar(s)
    ELSE LET h == Len(s) \div 2
         IN Lower(SubSeq(s, 1, h)) \o Lower(SubSeq(s, h + 1, Len(s)))

\* str.lstrip(): the index of the first character that is not whitespace
FirstNonSpace(s) ==
    LET idx == {i \in 1..Len(s) : ~IsSpace(CharAt(s, i))}
    IN IF idx = {} THEN Len(s) + 1 ELSE CHOOSE i \in idx : \A j \in idx : i <= j

\* the index of the last character that is not whitespace, 0 when there is none
RECURSIVE LastNonSpace(_, _)
LastNonSpace(s, n) ==
    IF n = 0 THEN 0
    ELSE IF IsSpace(CharAt(s, n)) THEN LastNonSpace(s, n - 1)
    ELSE n

\* str.rstrip()
RStrip(s) == SubSeq(s, 1, LastNonSpace(s, Len(s)))

\* str.strip()
Strip(s) ==
    LET r == RStrip(s)
    IN SubSeq(r, FirstNonSpace(r), Len(r))

\* str.startswith(p)
StartsWith(s, p) == Len(s) >= Len(p) /\ SubSeq(s, 1, Len(p)) = p

\* str.endswith(p)
EndsWith(s, p) == Len(s) >= Len(p) /\ SubSeq(s, Len(s) - Len(p) + 1, Len(s)) = p

\* p in s
Contains(s, p) == \E i \in 1..(Len(s) - Len(p) + 1) : SubSeq(s, i, i + Len(p) - 1) = p

\* s.count(c) for a single character c
Count(s, c) == Cardinality({i \in 1..Len(s) : CharAt(s, i) = c})

(***************************************************************************)
(* Python values as they arrive in a decoded JSON document: t is the type, *)
(* s the value of a str, n the value of an int (and of a bool, which       *)
(* Python counts as the int 0 or 1).                                       *)
(***************************************************************************)
PyNone == [t |-> "none", s |-> "", n |-> 0]
PyStr(x) == [t |-> "str", s |-> x, n |-> 0]
PyInt(x) == [t |-> "int", s |-> "", n |-> x]
PyBool(b) == [t |-> "bool", s |-> "", n |-> IF b THEN 1 ELSE 0]
PyFloat(x) == [t |-> "float", s |-> "", n |-> x]

\* bool(v)
Truthy(v) ==
    CASE v.t = "none" -> FALSE
      [] v.t = "str" -> v.s # ""
      [] OTHER -> v.n # 0

\* a or b
PyOr(a, b) == IF Truthy(a) THEN a ELSE b

\* isinstance(v, int): bool is a subclass of int
IsInstanceInt(v) == v.t \in {"int", "bool"}

\* One entry of an action_items list: a str, a dict (its title, task and
\* importance keys as dict.get returns them, None when missing), or any
\* other value.
StrEntry(x) == [k |-> "str", text |-> x, title |-> PyNone, task |-> PyNone, importance |-> PyNone]
DictEntry(ti, ta, im) == [k |-> "dict", text |-> "", title |-> ti, task |-> ta, importance |-> im]
OtherEntry == [k |-> "other", text |-> "", title |-> PyNone, task |-> PyNone, importance |-> PyNone]

\* A canonical item {"title": str, "importance": int} read back as an entry
ItemEntry(it) == DictEntry(PyStr(it.title), PyNone, PyInt(it.importance))

(***************************************************************************)
(* normalize_items (actions.py)                                            *)
(***************************************************************************)
Raised == [raised |-> TRUE, out |-> <<>>]
Returned(list) == [raised |-> FALSE, out |-> list]

\* The title of one entry: it.strip() for a str; for a dict
\* (it.get("title") or it.get("task") or "").strip(), which raises
\* AttributeError when the value picked is not a str.
EntryTitle(it) ==
    IF it.k = "str" THEN [raised |-> FALSE, s |-> Strip(it.text)]
    ELSE LET v == PyOr(it.title, PyOr(it.task, PyStr("")))
         IN IF v.t = "str" THEN [raised |-> FALSE, s |-> Strip(v.s)]
            ELSE [raised |-> TRUE, s |-> ""]

\* {"low": 1, "normal": 2, "high": 3}.get(imp.lower(), 2)
LabelImportance(label) ==
    LET l == Lower(label)
    IN CASE l = "low" -> 1
         [] l = "normal" -> 2
         [] l = "high" -> 3
         [] OTHER -> 2

\* a variant whose range check starts at 1
ImportanceFromOne(imp) ==
    IF ~IsInstanceInt(imp) \/ ~(1 <= imp.n /\ imp.n <= 3) THEN 2 ELSE imp.n

\* if not isinstance(imp, int) or not (0 <= imp <= 3): imp = 2
ValidImportance(imp) ==
    IF ~IsInstanceInt(imp) \/ ~(0 <= imp.n /\ imp.n <= 3) THEN 2 ELSE imp.n

\* The importance of one entry: 2 for a str; for a dict the label mapped,
\* then the range check.
EntryImportance(it) ==
    IF it.k = "str" THEN 2
    ELSE LET imp == IF it.importance.t = "str"
                    THEN PyInt(LabelImportance(it.importance.s))
                    ELSE it.importance
         IN ValidImportance(imp)

\* a variant without the test that skips an empty title
RECURSIVE CanonicalKeepBlank(_, _, _)
CanonicalKeepBlank(list, i, norm) ==
    IF i > Len(list) THEN Returned(norm)
    ELSE LET it == list[i]
         IN IF it.k = "other" THEN CanonicalKeepBlank(list, i + 1, norm)
            ELSE LET title == EntryTitle(it)
                 IN IF title.raised THEN Raised
                    ELSE CanonicalKeepBlank(list, i + 1,
                            Append(norm, [title |-> title.s,
                                          importance |-> EntryImportance(it)]))

\* The first loop: one {"title", "importance"} per entry with a title
RECURSIVE Canonical(_, _, _)
Canonical(list, i, norm) ==
    IF i > Len(list) THEN Returned(norm)
    ELSE LET it == list[i]
         IN IF it.k = "other" THEN Canonical(list, i + 1, norm)
            ELSE LET title == EntryTitle(it)
                 IN IF title.raised THEN Raised
                    ELSE IF title.s = "" THEN Canonical(list, i + 1, norm)
                    ELSE Canonical(list, i + 1,
                            Append(norm, [title |-> title.s,
                                          importance |-> EntryImportance(it)]))

\* a variant that compares the titles as spelled
ExactKey(title) == title

\* k = n["title"].lower()
DedupeKey(title) == Lower(title)

\* a variant that puts the newest item first
EmitFront(out, n) == <<n>> \o out

\* out.append(n)
Emit(out, n) == Append(out, n)

\* The second loop: de-dupe by lowercase title, the first one kept
RECURSIVE Dedupe(_, _, _, _)
Dedupe(norm, i, seen, out) ==
    IF i > Len(norm) THEN out
    ELSE LET k == DedupeKey(norm[i].title)
         IN IF k \in seen THEN Dedupe(norm, i + 1, seen, out)
            ELSE Dedupe(norm, i + 1, seen \cup {k}, Emit(out, norm[i]))

normalize_items(list) ==
    LET first == Canonical(list, 1, <<>>)
    IN IF first.raised THEN Raised
       ELSE Returned(Dedupe(first.out, 1, {}, <<>>))

(***************************************************************************)
(* The regular expressions and the sentence splitter (actions.py)          *)
(***************************************************************************)
\* The least element of a non-empty set of indices
Min(set) == CHOOSE i \in set : \A j \in set : i <= j

\* The least index from i on that is in stops, the index after s if none:
\* where a greedy run that matched at i ends
RunEnd(s, i, stops) ==
    LET after == {j \in stops : j >= i}
    IN IF after = {} THEN Len(s) + 1 ELSE Min(after)

NotSpace(c) == ~IsSpace(c)

IsNewline(c) == c = "\n"

\* The index after the run of \s, of \S and of \n that starts at i
SpaceRunEnd(s, i) == RunEnd(s, i, {j \in i..Len(s) : ~IsSpace(CharAt(s, j))})
NonSpaceRunEnd(s, i) == RunEnd(s, i, {j \in i..Len(s) : IsSpace(CharAt(s, j))})
NewlineRunEnd(s, i) == RunEnd(s, i, {j \in i..Len(s) : ~IsNewline(CharAt(s, j))})

\* https?://\S+ matches at index i
UrlAt(s, i) ==
    \/ i + 7 <= Len(s) /\ SubSeq(s, i, i + 6) = "http://" /\ NotSpace(CharAt(s, i + 7))
    \/ i + 8 <= Len(s) /\ SubSeq(s, i, i + 7) = "https://" /\ NotSpace(CharAt(s, i + 8))

\* re.sub(r"https?://\S+", repl, s): each match, leftmost first, replaced
RECURSIVE SubUrls(_, _)
SubUrls(s, repl) ==
    LET hits == {i \in 1..Len(s) : UrlAt(s, i)}
    IN IF hits = {} THEN s
       ELSE LET m == Min(hits)
                e == NonSpaceRunEnd(s, m)
            IN SubSeq(s, 1, m - 1) \o repl \o SubUrls(SubSeq(s, e, Len(s)), repl)

\* _WHITESPACE.sub(" ", text) on the characters lo..hi of s: every run of
\* whitespace becomes one space
RECURSIVE CollapseRange(_, _, _)
CollapseRange(s, lo, hi) ==
    IF lo > hi THEN ""
    ELSE IF lo = hi
    THEN (IF ~IsSpace(CharAt(s, lo)) THEN CharAt(s, lo)
          ELSE IF lo > 1 /\ IsSpace(CharAt(s, lo - 1)) THEN ""
          ELSE " ")
    ELSE LET h == (lo + hi) \div 2
         IN CollapseRange(s, lo, h) \o CollapseRange(s, h + 1, hi)

CollapseWhitespace(s) == CollapseRange(s, 1, Len(s))

\* text.replace("\r", "\n") on the characters lo..hi of s
RECURSIVE ReplaceCrRange(_, _, _)
ReplaceCrRange(s, lo, hi) ==
    IF lo > hi THEN ""
    ELSE IF lo = hi THEN (IF CharAt(s, lo) = "\r" THEN "\n" ELSE CharAt(s, lo))
    ELSE LET h == (lo + hi) \div 2
         IN ReplaceCrRange(s, lo, h) \o ReplaceCrRange(s, h + 1, hi)

ReplaceCr(s) == ReplaceCrRange(s, 1, Len(s))

IsTerminal(c) == c \in {".", "?", "!"}

\* (?<=[\.\?!])\s+ matches at index i
CutAfterTerminal(s, i) == i > 1 /\ IsTerminal(CharAt(s, i - 1)) /\ IsSpace(CharAt(s, i))

\* (?<=[\.\?!])\s+|\n+ matches at index i
CutAt(s, i) == CutAfterTerminal(s, i) \/ IsNewline(CharAt(s, i))

\* re.split(r"(?<=[\.\?!])\s+|\n+", s): the pieces between the matches,
\* searched from index `from` on, the piece in progress starting there
RECURSIVE SplitFrom(_, _)
SplitFrom(s, from) ==
    LET cuts == {i \in from..Len(s) : CutAt(s, i)}
    IN IF cuts = {} THEN <<SubSeq(s, from, Len(s))>>
       ELSE LET m == Min(cuts)
                e == IF CutAfterTerminal(s, m) THEN SpaceRunEnd(s, m)
                     ELSE NewlineRunEnd(s, m)
            IN <<SubSeq(s, from, m - 1)>> \o SplitFrom(s, e)

\* [p.strip() for p in parts if p and len(p.strip()) >= 4]
RECURSIVE KeepSentences(_)
KeepSentences(parts) ==
    IF parts = <<>> THEN <<>>
    ELSE LET p == Strip(Head(parts))
         IN (IF Len(p) >= 4 THEN <<p>> ELSE <<>>) \o KeepSentences(Tail(parts))

_split_sentences(text) ==
    LET t1 == SubUrls(text, "")
        t2 == CollapseWhitespace(t1)
        t3 == ReplaceCr(t2)
    IN KeepSentences(SplitFrom(t3, 1))

(***************************************************************************)
(* The candidate filter and the scorer (actions.py)                        *)
(***************************************************************************)
_ACTION_TRIGGERS ==
    <<"please", "could you", "can you", "would you", "let me know", "follow up",
      "circle back", "confirm", "review", "share", "send", "provide", "update",
      "schedule", "book", "set up", "arrange", "reply", "respond", "sign",
      "approve",
      "by eod", "by tomorrow", "by monday", "by friday", "today", "this week",
      "deadline", "due", "asap", "urgent",
      "attach", "attachment", "draft", "doc", "invoice", "payment", "pay",
      "ticket", "bug", "fix", "implement">>

\* a variant that counts "by friday" as urgent
HighHintsWithFriday == <<"asap", "urgent", "by eod", "deadline", "due ", "tomorrow", "by friday">>

_HIGH_HINTS == <<"asap", "urgent", "by eod", "deadline", "due ", "tomorrow">>

\* any(t in s for t in tokens)
ContainsAny(s, tokens) == \E k \in 1..Len(tokens) : Contains(s, tokens[k])

\* s.startswith(tuple) and s.endswith(tuple)
StartsWithAny(s, tokens) == \E k \in 1..Len(tokens) : StartsWith(s, tokens[k])
EndsWithAny(s, tokens) == \E k \in 1..Len(tokens) : EndsWith(s, tokens[k])

\* _QUOTED_LINE.match(s): ^\s*>+
QuotedLineMatch(s) ==
    LET i == FirstNonSpace(s)
    IN i <= Len(s) /\ CharAt(s, i) = ">"

\* _SIG_LINE.match(s): ^\s*--\s*$
SigLineMatch(s) == Strip(s) = "--"

\* \b between the characters i and i + 1 of s
WordBoundary(s, i) ==
    LET before == i >= 1 /\ i <= Len(s) /\ IsWord(CharAt(s, i))
        after == i + 1 >= 1 /\ i + 1 <= Len(s) /\ IsWord(CharAt(s, i + 1))
    IN before # after

\* re.match(r"^(please|let\'?s|kindly)\b", s_low)
ImperativeOpener(s_low) ==
    \E w \in {"please", "lets", "let's", "kindly"} :
        StartsWith(s_low, w) /\ WordBoundary(s_low, Len(w))

\* re.match(r"^(action items?|next steps?|todo|to-do)\s*:?", s_low): what
\* follows the first alternative that fits is optional
ActionHeader(s_low) == StartsWithAny(s_low, <<"action item", "next step", "todo", "to-do">>)

\* s_low.endswith("?") and any(k in s_low for k in (...))
ModalQuestion(s_low) ==
    /\ EndsWith(s_low, "?")
    /\ ContainsAny(s_low, <<"can", "could", "would", "will", "do you", "are you">>)

\* a variant without the footer test
CandidateIgnoringAt(s) ==
    LET s_low == Lower(s)
    IN IF Len(s) < 8 THEN FALSE
       ELSE IF EndsWithAny(s, <<"thanks", "thank you", "best">>) THEN FALSE
       ELSE IF StartsWithAny(s, <<"On ", "From:", "To:", "Subject:">>) THEN FALSE
       ELSE IF QuotedLineMatch(s) THEN FALSE
       ELSE IF ImperativeOpener(s_low) THEN TRUE
       ELSE IF ContainsAny(s_low, _ACTION_TRIGGERS) THEN TRUE
       ELSE IF ModalQuestion(s_low) THEN TRUE
       ELSE IF ActionHeader(s_low) THEN TRUE
       ELSE FALSE

\* a variant that looks at the inclusion rules first
CandidateInclusionFirst(s) ==
    LET s_low == Lower(s)
    IN IF ImperativeOpener(s_low) THEN TRUE
       ELSE IF ContainsAny(s_low, _ACTION_TRIGGERS) THEN TRUE
       ELSE IF ModalQuestion(s_low) THEN TRUE
       ELSE IF ActionHeader(s_low) THEN TRUE
       ELSE IF Len(s) < 8 THEN FALSE
       ELSE IF Count(s, "@") > 2 THEN FALSE
       ELSE IF EndsWithAny(s, <<"thanks", "thank you", "best">>) THEN FALSE
       ELSE IF StartsWithAny(s, <<"On ", "From:", "To:", "Subject:">>) THEN FALSE
       ELSE IF QuotedLineMatch(s) THEN FALSE
       ELSE FALSE

_is_candidate(s) ==
    LET s_low == Lower(s)
    IN IF Len(s) < 8 THEN FALSE
       ELSE IF Count(s, "@") > 2 THEN FALSE
       ELSE IF EndsWithAny(s, <<"thanks", "thank you", "best">>) THEN FALSE
       ELSE IF StartsWithAny(s, <<"On ", "From:", "To:", "Subject:">>) THEN FALSE
       ELSE IF QuotedLineMatch(s) THEN FALSE
       ELSE IF ImperativeOpener(s_low) THEN TRUE
       ELSE IF ContainsAny(s_low, _ACTION_TRIGGERS) THEN TRUE
       ELSE IF ModalQuestion(s_low) THEN TRUE
       ELSE IF ActionHeader(s_low) THEN TRUE
       ELSE FALSE

\* \b(?:mon|tue|wed|thu|fri|sat|sun|today|tomorrow)\b found in s_low
DayWord(s_low) ==
    \E w \in {"mon", "tue", "wed", "thu", "fri", "sat", "sun", "today", "tomorrow"} :
        \E i \in 1..(Len(s_low) - Len(w) + 1) :
            /\ SubSeq(s_low, i, i + Len(w) - 1) = w
            /\ WordBoundary(s_low, i - 1)
            /\ WordBoundary(s_low, i + Len(w) - 1)

\* \b\d{1,2}/\d{1,2}\b found in s_low
SlashDate(s_low) ==
    \E i \in 1..Len(s_low) : \E a, b \in 1..2 :
        /\ i + a + b <= Len(s_low)
        /\ \A k \in i..(i + a - 1) : IsDigit(CharAt(s_low, k))
        /\ CharAt(s_low, i + a) = "/"
        /\ \A k \in (i + a + 1)..(i + a + b) : IsDigit(CharAt(s_low, k))
        /\ WordBoundary(s_low, i - 1)
        /\ WordBoundary(s_low, i + a + b)

\* a variant whose default is 1
ImportanceDefaultOne(s) ==
    LET s_low == Lower(s)
    IN IF ContainsAny(s_low, _HIGH_HINTS) THEN 3
       ELSE IF DayWord(s_low) \/ SlashDate(s_low) THEN 2
       ELSE 1

_importance_from_text(s) ==
    LET s_low == Lower(s)
    IN IF ContainsAny(s_low, _HIGH_HINTS) THEN 3
       ELSE IF DayWord(s_low) \/ SlashDate(s_low) THEN 2
       ELSE 2

(***************************************************************************)
(* fallback_extract_from_body and extract_actions (actions.py)             *)
(***************************************************************************)
\* if len(items) >= 5: break
FallbackCap == 5

\* if len(s.split()) >= 6
InformativeWords == 6

IsLineBreak(c) == c \in {"\n", "\r", "\f"}

\* str.splitlines(): "\r\n" is one line break, no empty last line
RECURSIVE SplitLines(_)
SplitLines(s) ==
    IF s = "" THEN <<>>
    ELSE LET brk == {i \in 1..Len(s) : IsLineBreak(CharAt(s, i))}
         IN IF brk = {} THEN <<s>>
            ELSE LET m == Min(brk)
                     e == IF CharAt(s, m) = "\r" /\ m < Len(s) /\ CharAt(s, m + 1) = "\n"
                          THEN m + 2 ELSE m + 1
                 IN <<SubSeq(s, 1, m - 1)>> \o SplitLines(SubSeq(s, e, Len(s)))

\* a variant that drops the signature line and goes on
RECURSIVE KeepLinesPastSignature(_)
KeepLinesPastSignature(lines) ==
    IF lines = <<>> THEN <<>>
    ELSE IF SigLineMatch(Head(lines)) THEN KeepLinesPastSignature(Tail(lines))
    ELSE IF QuotedLineMatch(Head(lines)) THEN KeepLinesPastSignature(Tail(lines))
    ELSE <<Head(lines)>> \o KeepLinesPastSignature(Tail(lines))

\* The loop over body.splitlines(): stop at the signature line, skip the
\* quoted lines
RECURSIVE KeepLines(_)
KeepLines(lines) ==
    IF lines = <<>> THEN <<>>
    ELSE IF SigLineMatch(Head(lines)) THEN <<>>
    ELSE IF QuotedLineMatch(Head(lines)) THEN KeepLines(Tail(lines))
    ELSE <<Head(lines)>> \o KeepLines(Tail(lines))

\* sep.join(parts)
RECURSIVE Join(_, _)
Join(parts, sep) ==
    IF parts = <<>> THEN ""
    ELSE IF Len(parts) = 1 THEN Head(parts)
    ELSE Head(parts) \o sep \o Join(Tail(parts), sep)

\* len(s.split())
WordCount(s) ==
    Cardinality({i \in 1..Len(s) :
        ~IsSpace(CharAt(s, i)) /\ (i = 1 \/ IsSpace(CharAt(s, i - 1)))})

\* [s for s in sentences if _is_candidate(s)]
RECURSIVE Candidates(_)
Candidates(sentences) ==
    IF sentences = <<>> THEN <<>>
    ELSE (IF _is_candidate(Head(sentences)) THEN <<Head(sentences)>> ELSE <<>>)
         \o Candidates(Tail(sentences))

\* a variant that never stops collecting
CapNever(found) == FALSE

\* if len(items) >= 5: break
CapReached(found) == Len(found) >= FallbackCap

\* The loop over the candidates: de-dupe by lowercase sentence, stop at 5
RECURSIVE Collect(_, _, _, _)
Collect(candidates, i, seen, found) ==
    IF i > Len(candidates) THEN found
    ELSE LET s == candidates[i]
             key == Lower(s)
         IN IF key \in seen THEN Collect(candidates, i + 1, seen, found)
            ELSE LET more == Append(found, [title |-> s,
                                            importance |-> _importance_from_text(s)])
                 IN IF CapReached(more) THEN more
                    ELSE Collect(candidates, i + 1, seen \cup {key}, more)

\* a variant that takes the first sentence whatever its length
FirstSentence(sentences) ==
    IF sentences = <<>> THEN <<>>
    ELSE <<[title |-> Head(sentences), importance |-> 2]>>

\* The loop that falls back to the first informative sentence
RECURSIVE FirstInformative(_)
FirstInformative(sentences) ==
    IF sentences = <<>> THEN <<>>
    ELSE IF WordCount(Head(sentences)) >= InformativeWords
    THEN <<[title |-> Head(sentences), importance |-> 2]>>
    ELSE FirstInformative(Tail(sentences))

\* The text the sentences are taken from: the lines before the signature
\* line, the quoted lines left out
BodyText(btext) == Strip(Join(KeepLines(SplitLines(btext)), "\n"))

fallback_extract_from_body(btext) ==
    IF btext = "" THEN <<>>
    ELSE LET text == BodyText(btext)
             found == Collect(Candidates(_split_sentences(text)), 1, {}, <<>>)
             chosen == IF found = <<>> THEN FirstInformative(_split_sentences(text))
                       ELSE found
         IN normalize_items([i \in 1..Len(chosen) |-> ItemEntry(chosen[i])]).out

\* summary_json.get("action_items") or []
ActionItemsOf(sj) == IF sj.has THEN sj.action_items ELSE <<>>

\* a variant that prefers what the body gives
extract_actions_body_first(sj, btext) ==
    LET norm == normalize_items(ActionItemsOf(sj))
        fromBody == fallback_extract_from_body(btext)
    IN IF norm.raised THEN Raised
       ELSE IF fromBody # <<>> THEN Returned(fromBody)
       ELSE Returned(norm.out)

\* a variant that looks at the raw list, not at what it normalizes to
extract_actions_raw(sj, btext) ==
    LET raw == ActionItemsOf(sj)
        norm == normalize_items(raw)
    IN IF norm.raised THEN Raised
       ELSE IF raw # <<>> THEN Returned(norm.out)
       ELSE Returned(fallback_extract_from_body(btext))

extract_actions(sj, btext) ==
    LET norm == normalize_items(ActionItemsOf(sj))
    IN IF norm.raised THEN Raised
       ELSE IF norm.out # <<>> THEN Returned(norm.out)
       ELSE Returned(fallback_extract_from_body(btext))

(***************************************************************************)
(* The text normalizer (preprocess.py)                                     *)
(***************************************************************************)
_MAX_CHARS == 1500

\* The character U+2026 (one character), written as an ASCII character
\* that no input holds
Ellipsis == "^"

\* a variant that cuts at the limit and then appends
TruncateOffByOne(text, limit) ==
    IF Len(text) <= limit THEN Strip(text)
    ELSE RStrip(SubSeq(text, 1, limit)) \o Ellipsis

_truncate(text, limit) ==
    IF Len(text) <= limit THEN Strip(text)
    ELSE RStrip(SubSeq(text, 1, limit - 1)) \o Ellipsis

_simplify_urls(text) == SubUrls(text, "[link]")

\* str.split("\n")
RECURSIVE SplitOnNewline(_)
SplitOnNewline(s) ==
    LET brk == {i \in 1..Len(s) : CharAt(s, i) = "\n"}
    IN IF brk = {} THEN <<s>>
       ELSE <<SubSeq(s, 1, Min(brk) - 1)>> \o SplitOnNewline(SubSeq(s, Min(brk) + 1, Len(s)))

\* EmailReplyParser.parse_reply(text) of the email_reply_parser package:
\* the text without its quoted lines and without what follows a line that
\* is a signature delimiter
ParseReply(text) == Join(KeepLines(SplitOnNewline(text)), "\n")

\* The index of the first ">" after index i, 0 if there is none
TagEnd(s, i) ==
    LET ends == {j \in (i + 1)..Len(s) : CharAt(s, j) = ">"}
    IN IF ends = {} THEN 0 ELSE Min(ends)

\* BeautifulSoup(html, "html.parser").get_text(separator="\n"): the text
\* between the tags, its pieces joined by a newline
RECURSIVE SoupText(_)
SoupText(html) ==
    LET opens == {i \in 1..Len(html) : CharAt(html, i) = "<" /\ TagEnd(html, i) > 0}
    IN IF opens = {} THEN html
       ELSE LET m == Min(opens)
                rest == SoupText(SubSeq(html, TagEnd(html, m) + 1, Len(html)))
                head == SubSeq(html, 1, m - 1)
            IN IF head = "" THEN rest
               ELSE IF rest = "" THEN head
               ELSE head \o "\n" \o rest

\* re.sub(r"\n{3,}", "\n\n", text) on the characters lo..hi of s: of a run
\* of newlines the first two are kept
RECURSIVE SqueezeRange(_, _, _)
SqueezeRange(s, lo, hi) ==
    IF lo > hi THEN ""
    ELSE IF lo = hi
    THEN (IF /\ lo > 2
             /\ CharAt(s, lo) = "\n"
             /\ CharAt(s, lo - 1) = "\n"
             /\ CharAt(s, lo - 2) = "\n"
          THEN "" ELSE CharAt(s, lo))
    ELSE LET h == (lo + hi) \div 2
         IN SqueezeRange(s, lo, h) \o SqueezeRange(s, h + 1, hi)

_html_to_text(html) ==
    LET text == SoupText(html)
    IN Strip(SqueezeRange(text, 1, Len(text)))

\* "<html" in body_clean.lower() or "</" in body_clean[:200]
LooksLikeHtml(text) ==
    \/ Contains(Lower(text), "<html")
    \/ Contains(SubSeq(text, 1, IF Len(text) < 200 THEN Len(text) ELSE 200), "</")

\* The body as it reaches _truncate: steps 2 to 4 of clean_email up to the
\* URL replacement
BeforeTruncate(text) ==
    LET reply == ParseReply(text)
        plain == IF LooksLikeHtml(reply) THEN _html_to_text(reply) ELSE reply
    IN _simplify_urls(plain)

\* headers.get(name, "")
HeaderGet(h, name) == IF name \in DOMAIN h.map THEN h.map[name] ELSE ""

\* a variant without the placeholder
CleanSubjectNoPlaceholder(subj, h) ==
    LET sender == HeaderGet(h, "From")
    IN IF h.given /\ DOMAIN h.map # {} /\ sender # ""
       THEN sender \o ": " \o Strip(subj)
       ELSE Strip(subj)

\* Steps 5 and 6 of clean_email: the subject trimmed or "(no subject)",
\* prefixed with the sender when the headers give one
CleanSubject(subj, h) ==
    LET trimmed == Strip(subj)
        subject_clean == IF trimmed # "" THEN trimmed ELSE "(no subject)"
        sender == HeaderGet(h, "From")
    IN IF h.given /\ DOMAIN h.map # {} /\ sender # ""
       THEN sender \o ": " \o subject_clean
       ELSE subject_clean

clean_email(subj, text, h) ==
    [subject |-> CleanSubject(subj, h),
     body |-> _truncate(BeforeTruncate(text), _MAX_CHARS)]

(***************************************************************************)
(* The lists normalize_items is called with                                *)
(***************************************************************************)
TitleValues ==
    {PyNone, PyStr(""), PyStr("  "), PyStr("Book flight"), PyStr(" book flight "),
     PyStr("Pay rent"), PyInt(0), PyInt(7)}

TaskValues == {PyNone, PyStr("Call Bob"), PyStr("BOOK FLIGHT")}

ImportanceValues ==
    {PyNone, PyInt(0 - 1), PyInt(0), PyInt(1), PyInt(2), PyInt(3), PyInt(4),
     PyStr("low"), PyStr("normal"), PyStr("high"), PyStr("HIGH"), PyStr("urgent"),
     PyStr(""), PyBool(TRUE), PyBool(FALSE), PyFloat(1)}

AllEntries ==
    {StrEntry(x) : x \in {"", "  ", "Book flight", " book flight ", "Pay rent\n"}}
    \cup {DictEntry(ti, ta, PyNone) : ti \in TitleValues, ta \in TaskValues}
    \cup {DictEntry(PyStr("Pay rent"), PyNone, im) : im \in ImportanceValues}
    \cup {OtherEntry}

CoreEntries ==
    {StrEntry("Book flight"),
     StrEntry(" book flight "),
     DictEntry(PyStr("book flight"), PyNone, PyStr("high")),
     DictEntry(PyStr(""), PyStr("BOOK FLIGHT"), PyInt(0)),
     DictEntry(PyStr("Pay rent"), PyNone, PyInt(1)),
     StrEntry(" ")}

BookFlightExample ==
    <<StrEntry("Book flight"), DictEntry(PyStr("book flight"), PyNone, PyStr("high"))>>

CoreLists(n) == UNION {[1..m -> CoreEntries] : m \in 0..n}

\* Any one entry among the entries of a short list, at its head or its tail
InputLists ==
    {<<>>}
    \cup {<<e>> \o l : e \in AllEntries, l \in CoreLists(MaxItems - 1)}
    \cup {l \o <<e>> : e \in AllEntries, l \in CoreLists(MaxItems - 1)}

(***************************************************************************)
(* normalize_items called on a list, then on its own output                *)
(***************************************************************************)
NoResult == [raised |-> FALSE, out |-> <<>>]

NoSummary == [has |-> FALSE, action_items |-> <<>>]

\* No extract_actions call is under study
ExtractIdle ==
    /\ body = ""
    /\ summary_json = NoSummary
    /\ heur = <<>>
    /\ actions = NoResult

NoHeaders == [given |-> FALSE, map |-> <<>>]
NotCleaned == [subject |-> "", body |-> ""]

\* No clean_email call is under study
CleanIdle ==
    /\ subject = ""
    /\ raw_body = ""
    /\ headers = NoHeaders
    /\ cleaned = NotCleaned

\* No normalize_items call is under study
NormalizeIdle ==
    /\ items = <<>>
    /\ result = NoResult
    /\ again = NoResult

\* No summarizer call is under study
SummarizeIdle ==
    /\ mail = [subject |-> PyNone, body |-> PyNone]
    /\ verdict = ""
    /\ llm = [kind |-> "none"]
    /\ summarized = NoResult

\* No clean_gmail_message call is under study; the cache is as at import
GmailIdle ==
    /\ gmsg = [headers |-> <<>>, payload |-> [mimeType |-> "", data |-> PyNone, parts |-> <<>>],
               snippet |-> PyNone]
    /\ cache = <<>>
    /\ gclean = [subject |-> "", from |-> "", body |-> "", headers |-> <<>>, body_raw |-> ""]

\* No database operation is under study
DbIdle ==
    /\ conn = [state |-> "none", dsn |-> TRUE, up |-> TRUE]
    /\ table = {}
    /\ call = [op |-> "none"]
    /\ resp = [status |-> 0]

NoPoll == [stage |-> "none"]

\* No request, no polling cycle and no concurrent caller is under study;
\* the messages table is empty and no API key is set
ServiceIdle ==
    /\ messages = <<>>
    /\ api_key = ""
    /\ poll = NoPoll
    /\ sessions = <<>>
    /\ now = 0

InitNormalize ==
    /\ pc = "start"
    /\ items \in InputLists
    /\ result = NoResult
    /\ again = NoResult
    /\ ExtractIdle
    /\ CleanIdle
    /\ SummarizeIdle
    /\ GmailIdle
    /\ DbIdle
    /\ ServiceIdle

Normalize ==
    /\ pc = "start"
    /\ result' = normalize_items(items)
    /\ pc' = IF result'.raised THEN "raised" ELSE "normalized"
    /\ UNCHANGED <<items, again, body, summary_json, heur, actions>>
    /\ UNCHANGED <<subject, raw_body, headers, cleaned>>
    /\ UNCHANGED <<summarizeVars, gmailVars, dbVars>>
    /\ UNCHANGED serviceVars

Renormalize ==
    /\ pc = "normalized"
    /\ again' = normalize_items([i \in 1..Len(result.out) |-> ItemEntry(result.out[i])])
    /\ pc' = "renormalized"
    /\ UNCHANGED <<items, result, body, summary_json, heur, actions>>
    /\ UNCHANGED <<subject, raw_body, headers, cleaned>>
    /\ UNCHANGED <<summarizeVars, gmailVars, dbVars>>
    /\ UNCHANGED serviceVars

NextNormalize == Normalize \/ Renormalize

SpecNormalize == InitNormalize /\ [][NextNormalize]_vars

(***************************************************************************)
(* extract_actions and fallback_extract_from_body called on a body         *)
(***************************************************************************)
Scenario1Body == "Please review the attached doc by Friday. Thanks."

\* The paragraphs the bodies are made of
Pieces ==
    {"Please fix the bug. Send me the draft asap! Can you join us?\n",
     "Kindly confirm it. Let's meet at noon. KINDLY CONFIRM IT. Next steps: relax.\n",
     "PLEASE FIX THE BUG. Review plan A by Friday\nTodo later\n",
     "Hello there. The weather was nice all day long here. ",
     "Mail a@x b@x c@x or d@x with all the news. ",
     "Please mail a@x b@x c@x. Thanks.\n",
     "\n-- \nPlease sign here.\n",
     "\n> Please approve the quote.\n",
     "Can you call tomorrow? Pay 12/5 or mon. Meet us today.\n",
     "Please call Bob.\n> Please pay Al.\n--\nPlease sign it.\n",
     "Fix it. From: please send the bill. Ok so then. > Kindly confirm it. Send it. Please reply, thanks",
     Scenario1Body}

RECURSIVE Concat(_)
Concat(parts) == IF parts = <<>> THEN "" ELSE Head(parts) \o Concat(Tail(parts))

Bodies == {Concat(ps) : ps \in UNION {[1..m -> Pieces] : m \in 0..MaxPieces}}

Summary(list) == [has |-> TRUE, action_items |-> list]

\* The summary results: no action_items, an empty list, lists that
\* normalize to nothing, lists with items, a list with a title that is
\* not a str
Summaries ==
    {NoSummary,
     Summary(<<>>),
     Summary(<<StrEntry("  ")>>),
     Summary(<<OtherEntry, DictEntry(PyStr(""), PyNone, PyInt(3))>>),
     Summary(BookFlightExample),
     Summary(<<StrEntry(" "), StrEntry("Pay rent")>>),
     Summary(<<DictEntry(PyInt(7), PyNone, PyNone)>>)}

InitExtract ==
    /\ pc = "start"
    /\ body \in Bodies
    /\ summary_json = NoSummary
    /\ heur = <<>>
    /\ actions = NoResult
    /\ NormalizeIdle
    /\ CleanIdle
    /\ SummarizeIdle
    /\ GmailIdle
    /\ DbIdle
    /\ ServiceIdle

Fallback ==
    /\ pc = "start"
    /\ heur' = fallback_extract_from_body(body)
    /\ pc' = "heuristic"
    /\ UNCHANGED <<items, result, again, body, summary_json, actions>>
    /\ UNCHANGED <<subject, raw_body, headers, cleaned>>
    /\ UNCHANGED <<summarizeVars, gmailVars, dbVars>>
    /\ UNCHANGED serviceVars

Extract ==
    /\ pc = "heuristic"
    /\ \E sj \in Summaries :
          /\ summary_json' = sj
          /\ actions' = extract_actions(sj, body)
    /\ pc' = IF actions'.raised THEN "raised" ELSE "done"
    /\ UNCHANGED <<items, result, again, body, heur>>
    /\ UNCHANGED <<subject, raw_body, headers, cleaned>>
    /\ UNCHANGED <<summarizeVars, gmailVars, dbVars>>
    /\ UNCHANGED serviceVars

NextExtract == Fallback \/ Extract

SpecExtract == InitExtract /\ [][NextExtract]_vars

(***************************************************************************)
(* clean_email called on a subject, a body and headers                     *)
(***************************************************************************)
\* c repeated n times
RECURSIVE Rep(_, _)
Rep(c, n) ==
    IF n = 0 THEN ""
    ELSE IF n % 2 = 1 THEN c \o Rep(c, n - 1)
    ELSE LET h == Rep(c, n \div 2) IN h \o h

Scenario3Body == Rep("x", 2000)

\* The lengths of the runs of 'x' the long bodies hold
LongRuns == (_MAX_CHARS - 6 - MaxSlack)..(_MAX_CHARS + MaxSlack)

BodyHeads == {"", " ", "<p>", "\n\n"}

BodyTails == {"", "   ", "\n ok", " http://a.b/c", "</p>", "\n> quoted\n", "\n--\nsig"}

CleanBodies ==
    {h \o Rep("x", n) \o t : h \in BodyHeads, n \in LongRuns, t \in BodyTails}
    \cup {h \o t : h \in BodyHeads, t \in BodyTails}
    \cup {Scenario3Body, "<html><body>Hello <b>World</b></body></html>"}

HeaderMap(from) == [given |-> TRUE, map |-> [n \in {"From"} |-> from]]

HeaderChoices ==
    {NoHeaders,
     [given |-> TRUE, map |-> <<>>],
     HeaderMap("a@b.c"),
     HeaderMap(""),
     [given |-> TRUE, map |-> [n \in {"Subject"} |-> "Hi"]]}

SubjectChoices == {"", "  ", "Hi", " Re: plan \n"}

InitClean ==
    /\ pc = "start"
    /\ raw_body \in CleanBodies
    /\ \/ subject = "Hi" /\ headers = NoHeaders
       \/ /\ raw_body \in {"", " ok"}
          /\ subject \in SubjectChoices
          /\ headers \in HeaderChoices
    /\ cleaned = NotCleaned
    /\ NormalizeIdle
    /\ ExtractIdle
    /\ SummarizeIdle
    /\ GmailIdle
    /\ DbIdle
    /\ ServiceIdle

Clean ==
    /\ pc = "start"
    /\ cleaned' = clean_email(subject, raw_body, headers)
    /\ pc' = "cleaned"
    /\ UNCHANGED <<items, result, again, body, summary_json, heur, actions>>
    /\ UNCHANGED <<subject, raw_body, headers>>
    /\ UNCHANGED <<summarizeVars, gmailVars, dbVars>>
    /\ UNCHANGED serviceVars

NextClean == Clean

SpecClean == InitClean /\ [][NextClean]_vars

(***************************************************************************)
(* Properties of normalize_items                                           *)
(***************************************************************************)
Normalized == pc \in {"normalized", "renormalized"}

\* The entry yields an item: it is a str or a dict with a non-blank title
Usable(it) == it.k # "other" /\ ~EntryTitle(it).raised /\ EntryTitle(it).s # ""

\* The indices of the entries that are the first of their lower-cased title
FirstIdx(list) ==
    LET key == [i \in 1..Len(list) |->
                  IF Usable(list[i]) THEN Lower(EntryTitle(list[i]).s) ELSE ""]
    IN {i \in 1..Len(list) :
          key[i] # "" /\ \A j \in 1..(i - 1) : key[j] # key[i]}

\* The a-th smallest element of a set of indices
Nth(set, a) == CHOOSE i \in set : Cardinality({j \in set : j <= i}) = a

\* C1: the output of normalize_items holds no two titles equal under
\* case-insensitive comparison; its items are, in input order, the first
\* entry of each lower-cased trimmed title, with that entry's spelling and
\* importance; ["Book flight", {title: "book flight", importance: "high"}]
\* gives [{title: "Book flight", importance: 2}].
C1_FirstOccurrenceWins ==
    Normalized =>
        LET out == result.out
            first == FirstIdx(items)
        IN /\ \A a, b \in 1..Len(out) :
                a # b => Lower(out[a].title) # Lower(out[b].title)
           /\ Len(out) = Cardinality(first)
           /\ \A a \in 1..Len(out) :
                LET it == items[Nth(first, a)]
                IN out[a] = [title |-> EntryTitle(it).s,
                             importance |-> EntryImportance(it)]
           /\ items = BookFlightExample =>
                out = <<[title |-> "Book flight", importance |-> 2]>>

\* A later duplicate with another spelling and importance was dropped
C1_Witness ==
    /\ pc = "normalized"
    /\ items = BookFlightExample
    /\ Len(result.out) = 1

\* C2: normalize_items applied to its own output returns that output: the
\* same items in the same order with the same importance values.
C2_Idempotent ==
    pc = "renormalized" => ~again.raised /\ again.out = result.out

\* The first call dropped entries and kept two or more items
C2_Witness ==
    /\ pc = "renormalized"
    /\ Len(result.out) >= 2
    /\ Len(items) > Len(result.out)

\* The importance the claim's wording gives an entry: 2 for a str, an int
\* in 0..3 kept, exactly the labels low/normal/high as 1/2/3, else 2
WordedImportance(it) ==
    IF it.k = "str" THEN 2
    ELSE LET imp == it.importance
         IN CASE imp.t = "int" /\ 0 <= imp.n /\ imp.n <= 3 -> imp.n
              [] imp.t = "str" /\ imp.s = "low" -> 1
              [] imp.t = "str" /\ imp.s = "normal" -> 2
              [] imp.t = "str" /\ imp.s = "high" -> 3
              [] OTHER -> 2

\* The same with the labels compared in lower case and a bool read as the
\* int it is in Python (False 0, True 1)
CaselessImportance(it) ==
    IF it.k = "str" THEN 2
    ELSE LET imp == it.importance
         IN CASE imp.t \in {"int", "bool"} /\ 0 <= imp.n /\ imp.n <= 3 -> imp.n
              [] imp.t = "str" /\ Lower(imp.s) = "low" -> 1
              [] imp.t = "str" /\ Lower(imp.s) = "normal" -> 2
              [] imp.t = "str" /\ Lower(imp.s) = "high" -> 3
              [] OTHER -> 2

\* The title the claim gives an entry: the string itself, or the title
\* field of a record, else its task field; trimmed
WordedTitle(it) ==
    IF it.k = "str" THEN Strip(it.text)
    ELSE IF Truthy(it.title) THEN Strip(it.title.s)
    ELSE Strip(it.task.s)

\* Every returned item has a non-empty trimmed title, taken from where the
\* claim says, and an importance in 0..3
TitlesAndRange ==
    LET first == FirstIdx(items)
    IN \A a \in 1..Len(result.out) :
        LET o == result.out[a]
        IN /\ o.title # ""
           /\ Strip(o.title) = o.title
           /\ o.importance \in 0..3
           /\ o.title = WordedTitle(items[Nth(first, a)])

\* C3 as worded: every returned item has a non-empty trimmed title and an
\* importance in 0..3, which is 2 for a string, the integer itself when
\* it is in 0..3, 1/2/3 for the labels low/normal/high and 2 for anything
\* else.
C3_AsWorded ==
    Normalized =>
        /\ TitlesAndRange
        /\ LET first == FirstIdx(items)
           IN \A a \in 1..Len(result.out) :
                result.out[a].importance = WordedImportance(items[Nth(first, a)])

\* C3, amended: the same, with the labels matched whatever their case
\* ("HIGH" gives 3) and a boolean importance kept as the integer it is in
\* Python (true gives 1, false gives 0).
C3_ImportanceMapping ==
    Normalized =>
        /\ TitlesAndRange
        /\ LET first == FirstIdx(items)
           IN \A a \in 1..Len(result.out) :
                result.out[a].importance = CaselessImportance(items[Nth(first, a)])

\* A record with the importance 0 and a title read from its task field
C3_Witness ==
    /\ pc = "normalized"
    /\ \E a \in 1..Len(result.out) :
          LET first == FirstIdx(items)
              it == items[Nth(first, a)]
          IN /\ it.k = "dict"
             /\ ~Truthy(it.title)
             /\ it.importance = PyInt(0)
             /\ result.out[a] = [title |-> "BOOK FLIGHT", importance |-> 0]

(***************************************************************************)
(* Properties of extract_actions and fallback_extract_from_body            *)
(***************************************************************************)
\* The sentences of the body and those that pass the candidate filter
Sentences == _split_sentences(BodyText(body))
Passing == Candidates(Sentences)

\* What the summary result's action_items normalize to
ModelItems == normalize_items(ActionItemsOf(summary_json)).out

\* C4 as worded: with a non-empty action_items list extract_actions
\* returns those entries normalized, whatever the body holds.
C4_AsWorded ==
    (pc = "done" /\ summary_json.has /\ summary_json.action_items # <<>>) =>
        actions.out = ModelItems

\* C4, amended: when the action_items list normalizes to one item or more
\* (a non-empty list of blank or unusable entries does not), extract_actions
\* returns those items and nothing of the body, even a body the heuristic
\* finds action sentences in.
C4_ModelItemsPrecede ==
    (pc = "done" /\ ModelItems # <<>>) => actions.out = ModelItems

\* The body has action sentences and the model's items are returned
C4_Witness ==
    /\ pc = "done"
    /\ summary_json = Summary(BookFlightExample)
    /\ heur # <<>>
    /\ actions.out = <<[title |-> "Book flight", importance |-> 2]>>

\* C5: extract_actions returns the normalized action_items when there is
\* one or more, and fallback_extract_from_body(body) exactly when the
\* normalization yields none.
C5_FallbackIffNoItems ==
    pc = "done" =>
        actions.out = IF ModelItems # <<>> THEN ModelItems ELSE heur

\* A non-empty list that normalizes to nothing: the body path was taken
C5_Witness ==
    /\ pc = "done"
    /\ summary_json = Summary(<<StrEntry("  ")>>)
    /\ heur # <<>>
    /\ actions.out = heur

\* The indices of the candidates that are the first of their lower-cased text
DistinctIdx(cands) ==
    LET key == [i \in 1..Len(cands) |-> Lower(cands[i])]
    IN {i \in 1..Len(cands) : \A j \in 1..(i - 1) : key[j] # key[i]}

\* C6: fallback_extract_from_body returns at most 5 items, and when
\* candidates exist they are the first (up to five) case-insensitively
\* distinct candidate sentences in their order in the body.
C6_AtMostFiveInOrder ==
    pc = "heuristic" =>
        LET passing == Passing
            first == DistinctIdx(passing)
        IN /\ Len(heur) <= 5
           /\ passing # <<>> =>
                /\ Len(heur) = (IF Cardinality(first) < 5 THEN Cardinality(first) ELSE 5)
                /\ \A a \in 1..Len(heur) : heur[a].title = passing[Nth(first, a)]

\* More than five distinct candidates, five returned
C6_Witness ==
    /\ pc = "heuristic"
    /\ Len(heur) = 5
    /\ LET passing == Passing
           first == DistinctIdx(passing)
       IN Cardinality(first) > 5 /\ Len(passing) > Cardinality(first)

FewAts(list) == \A a \in 1..Len(list) : Count(list[a].title, "@") <= 2

\* C8 as worded: no item that was derived from the body has a title with
\* more than 2 '@'.
C8_AsWorded ==
    /\ pc = "heuristic" => FewAts(heur)
    /\ (pc = "done" /\ ModelItems = <<>>) => FewAts(actions.out)

\* C8, amended: _is_candidate passes no sentence with more than 2 '@', so
\* whenever a sentence of the body passes the filter no returned item has
\* more than 2 '@'; when none passes, the sentence the fallback takes (the
\* first of 6 words or more) is not filtered and may hold more.
C8_NoFooterAmongCandidates ==
    pc \in {"heuristic", "done"} =>
        LET passing == Passing
        IN /\ \A i \in 1..Len(passing) : Count(passing[i], "@") <= 2
           /\ passing # <<>> =>
                /\ FewAts(heur)
                /\ (pc = "done" /\ ModelItems = <<>>) => FewAts(actions.out)

\* A request with 3 '@' beside a sentence that passes: it is left out
C8_Witness ==
    /\ pc = "heuristic"
    /\ heur # <<>>
    /\ LET sentences == Sentences
       IN \E i \in 1..Len(sentences) :
            Count(sentences[i], "@") > 2 /\ StartsWith(sentences[i], "Please")
    /\ Passing # <<>>

Scenario1Title == "Please review the attached doc by Friday."

\* C9 as worded: with no model items the body "Please review the attached
\* doc by Friday. Thanks." gives one item, that sentence with importance 3.
C9_AsWorded ==
    (pc = "done" /\ body = Scenario1Body /\ ModelItems = <<>>) =>
        actions.out = <<[title |-> Scenario1Title, importance |-> 3]>>

\* C9, amended: it gives one item, that sentence with importance 2 (no
\* high-urgency hint occurs in it); the second sentence is excluded.
C9_Scenario1 ==
    (pc = "done" /\ body = Scenario1Body /\ ModelItems = <<>>) =>
        /\ actions.out = <<[title |-> Scenario1Title, importance |-> 2]>>
        /\ Sentences = <<Scenario1Title, "Thanks.">>

C9_Witness ==
    /\ pc = "done"
    /\ body = Scenario1Body
    /\ summary_json = Summary(<<>>)
    /\ Len(actions.out) = 1

\* The indices of the sentences of 6 whitespace-delimited words or more
LongIdx(sentences) == {i \in 1..Len(sentences) : WordCount(sentences[i]) >= 6}

\* C10: when no sentence passes the candidate filter,
\* fallback_extract_from_body returns one item, the first sentence of 6
\* words or more with importance 2, and the empty list when there is no
\* such sentence or the body is empty.
C10_FirstInformative ==
    (pc = "heuristic" /\ Passing = <<>>) =>
        LET sentences == Sentences
            long == LongIdx(sentences)
        IN /\ IF long = {} THEN heur = <<>>
              ELSE heur = <<[title |-> sentences[Min(long)], importance |-> 2]>>
           /\ body = "" => heur = <<>>

\* The sentence returned is not the first one, which is too short
C10_Witness ==
    /\ pc = "heuristic"
    /\ Len(heur) = 1
    /\ Passing = <<>>
    /\ LET sentences == Sentences
       IN Len(sentences) >= 2 /\ heur[1].title # sentences[1]

\* No sentence passes and none has 6 words: nothing is returned
C10_EmptyWitness ==
    /\ pc = "heuristic"
    /\ body # ""
    /\ Sentences # <<>>
    /\ heur = <<>>

(***************************************************************************)
(* Properties of clean_email                                               *)
(***************************************************************************)
\* C7: the body clean_email returns has at most 1500 characters; when the
\* text before truncation (after reply trimming, HTML conversion and URL
\* collapsing) is longer than 1500 characters it ends with the ellipsis;
\* a body of 2000 'x' gives 1500 characters, the last one the ellipsis.
C7_TruncationBound ==
    pc = "cleaned" =>
        /\ Len(cleaned.body) <= 1500
        /\ Len(BeforeTruncate(raw_body)) > 1500 => EndsWith(cleaned.body, Ellipsis)
        /\ raw_body = Scenario3Body =>
             cleaned.body = Rep("x", 1499) \o Ellipsis

\* A text of 1501 characters or more ending in whitespace was cut: the
\* result is shorter than 1500 and ends with the ellipsis
C7_Witness ==
    /\ pc = "cleaned"
    /\ Len(BeforeTruncate(raw_body)) > 1500
    /\ Len(cleaned.body) < 1500
    /\ EndsWith(cleaned.body, Ellipsis)

(***************************************************************************)
(* The summarizer (mailminder/summarizer.py): the heuristic importance     *)
(* classifier and the model-backed summary of one cleaned message          *)
(***************************************************************************)
\* a variant without the lower-casing
HeuristicCaseSensitive(subj, btext) ==
    LET s == PyOr(subj, PyStr("")).s
        b == PyOr(btext, PyStr("")).s
        high_terms == <<"urgent", "asap", "action required", "payment", "invoice", "deadline">>
    IN IF \E k \in 1..Len(high_terms) :
             Contains(s, high_terms[k]) \/ Contains(b, high_terms[k])
       THEN "high"
       ELSE "normal"

_heuristic_importance(subj, btext) ==
    LET s == Lower(PyOr(subj, PyStr("")).s)
        b == Lower(PyOr(btext, PyStr("")).s)
        high_terms == <<"urgent", "asap", "action required", "payment", "invoice", "deadline">>
    IN IF \E k \in 1..Len(high_terms) :
             Contains(s, high_terms[k]) \/ Contains(b, high_terms[k])
       THEN "high"
       ELSE "normal"

\* Values json.loads produces besides those normalize_items sees
PyList(len) == [t |-> "list", s |-> "", n |-> len]
PyDict(su, im, ai) == [t |-> "dict", summary |-> su, importance |-> im, action_items |-> ai]
NotJson == [t |-> "invalid"]

\* json.loads on the texts the model call answers with: the parsed value,
\* or NotJson where it raises JSONDecodeError.  A key the object lacks reads
\* as None, as dict.get gives it.
json_loads ==
    [raw \in {""} |-> NotJson]
    @@ ("   " :> NotJson)
    @@ ("Sorry, I cannot help." :> NotJson)
    @@ ("{\"summary\": \"Sign it\"" :> NotJson)
    @@ ("null" :> PyNone)
    @@ ("42" :> PyInt(42))
    @@ ("\"just text\"" :> PyStr("just text"))
    @@ ("[1, 2]" :> PyList(2))
    @@ ("{}" :> PyDict(PyNone, PyNone, PyNone))
    @@ ("{\"summary\": \"Sign it\", \"importance\": \"high\", \"action_items\": [\"Sign\"]}"
          :> PyDict(PyStr("Sign it"), PyStr("high"), PyList(1)))
    @@ (" {\"summary\": \" Sign it \", \"importance\": \"LOW\", \"action_items\": []} "
          :> PyDict(PyStr(" Sign it "), PyStr("LOW"), PyList(0)))
    @@ ("{\"summary\": \"\", \"importance\": \"low\", \"action_items\": []}"
          :> PyDict(PyStr(""), PyStr("low"), PyList(0)))
    @@ ("{\"summary\": \"  \", \"importance\": \"high\"}"
          :> PyDict(PyStr("  "), PyStr("high"), PyNone))
    @@ ("{\"importance\": \"low\"}" :> PyDict(PyNone, PyStr("low"), PyNone))
    @@ ("{\"summary\": 7}" :> PyDict(PyInt(7), PyNone, PyNone))
    @@ ("{\"summary\": \"Pay\", \"importance\": \"urgent\", \"action_items\": \"none\"}"
          :> PyDict(PyStr("Pay"), PyStr("urgent"), PyStr("none")))
    @@ ("{\"summary\": \"Pay\", \"importance\": \"high\", \"action_items\": 3}"
          :> PyDict(PyStr("Pay"), PyStr("high"), PyInt(3)))
    @@ ("{\"summary\": \"Pay\", \"importance\": null, \"action_items\": null}"
          :> PyDict(PyStr("Pay"), PyNone, PyNone))
    @@ ("{\"summary\": \"Pay\", \"importance\": \"\"}"
          :> PyDict(PyStr("Pay"), PyStr(""), PyNone))
    @@ ("{\"summary\": \"Pay\", \"importance\": 0}"
          :> PyDict(PyStr("Pay"), PyInt(0), PyNone))
    @@ ("{\"summary\": \"Pay\", \"importance\": 5, \"action_items\": []}"
          :> PyDict(PyStr("Pay"), PyInt(5), PyList(0)))
    @@ ("{\"summary\": \"Pay\", \"importance\": true}"
          :> PyDict(PyStr("Pay"), PyBool(TRUE), PyNone))
    @@ ("{\"summary\": \"Pay\", \"importance\": [\"high\"]}"
          :> PyDict(PyStr("Pay"), PyList(1), PyNone))

\* What openai.ChatCompletion.create does, as summarize_single_openai sees it
LlmRaises == [kind |-> "error"]                      \* an OpenAIError
LlmNoChoices == [kind |-> "nochoices"]               \* the response has no "choices" key
LlmEmptyChoices == [kind |-> "emptychoices"]         \* "choices" is the empty list
LlmContent(c) == [kind |-> "content", content |-> c] \* choices[0].message.content

\* s[:n]
Prefix(s, n) == SubSeq(s, 1, IF Len(s) < n THEN Len(s) ELSE n)

MAX_BODY == 2000

\* The message fields as summarize_single_openai reads them
MailSubject(msg) == Strip(PyOr(msg.subject, PyStr("")).s)
MailBody(msg) == Prefix(Strip(PyOr(msg.body, PyStr("")).s), MAX_BODY)

\* The except branch: the fallback object built from raw, else from the message
FallbackSummary(raw, msg) ==
    LET sub == MailSubject(msg)
        text == MailBody(msg)
    IN Returned([summary |->
                    IF Strip(raw) # "" THEN Strip(raw)
                    ELSE "**" \o (IF sub # "" THEN sub ELSE "(no subject)") \o "**\n\n"
                         \o (IF text # "" THEN Prefix(text, 400) \o Ellipsis
                             ELSE "(No body content)"),
                 importance |-> "normal",
                 action_items |-> PyList(0)])

\* The try branch once json.loads returned a dict
HardenedSummary(raw, obj, msg) ==
    LET imp == PyOr(obj.importance, PyStr("normal"))
        low == Lower(imp.s)
    IN IF imp.t # "str" THEN Raised      \* .lower() on a non-str: AttributeError, not caught
       ELSE IF obj.summary.t # "str" \/ Strip(obj.summary.s) = ""
       THEN FallbackSummary(raw, msg)
       ELSE Returned([summary |-> Strip(obj.summary.s),
                      importance |-> IF low \in {"low", "normal", "high"} THEN low ELSE "normal",
                      action_items |-> IF obj.action_items.t = "list"
                                       THEN obj.action_items ELSE PyList(0)])

summarize_single_openai(msg, outcome) ==
    IF outcome.kind \in {"error", "nochoices"} THEN FallbackSummary("", msg)
    ELSE IF outcome.kind = "emptychoices" THEN Raised    \* IndexError, not caught
    ELSE LET raw == PyOr(outcome.content, PyStr("")).s
             parsed == json_loads[raw]
         IN IF parsed.t # "dict" THEN FallbackSummary(raw, msg)
            ELSE HardenedSummary(raw, parsed, msg)

(***************************************************************************)
(* The summarizer called on a cleaned message                              *)
(***************************************************************************)
MailSubjects ==
    {PyNone, PyStr(""), PyStr("Urgent: sign contract"), PyStr("Weekly newsletter"),
     PyStr("Your INVOICE is ready"), PyStr(" Lunch? ")}

MailBodies ==
    {PyNone, PyStr(""), PyStr("Nothing pressing this week."),
     PyStr("Action Required: confirm the payment."), PyStr("Reply asap"),
     PyStr("  " \o Rep("y", 401))}

LlmOutcomes ==
    {LlmRaises, LlmNoChoices, LlmEmptyChoices, LlmContent(PyNone)}
    \cup {LlmContent(PyStr(raw)) : raw \in DOMAIN json_loads}

InitSummarize ==
    /\ pc = "start"
    /\ mail \in [subject : MailSubjects, body : MailBodies]
    /\ verdict = ""
    /\ llm = [kind |-> "none"]
    /\ summarized = NoResult
    /\ NormalizeIdle
    /\ ExtractIdle
    /\ CleanIdle
    /\ GmailIdle
    /\ DbIdle
    /\ ServiceIdle

Classify ==
    /\ pc = "start"
    /\ verdict' = _heuristic_importance(mail.subject, mail.body)
    /\ pc' = "classified"
    /\ UNCHANGED <<items, result, again, body, summary_json, heur, actions>>
    /\ UNCHANGED <<subject, raw_body, headers, cleaned>>
    /\ UNCHANGED <<mail, llm, summarized, gmailVars, dbVars>>
    /\ UNCHANGED serviceVars

SummarizeOpenai ==
    /\ pc = "classified"
    /\ \E outcome \in LlmOutcomes :
          /\ llm' = outcome
          /\ summarized' = summarize_single_openai(mail, outcome)
    /\ pc' = IF summarized'.raised THEN "raised" ELSE "summarized"
    /\ UNCHANGED <<items, result, again, body, summary_json, heur, actions>>
    /\ UNCHANGED <<subject, raw_body, headers, cleaned>>
    /\ UNCHANGED <<mail, verdict, gmailVars, dbVars>>
    /\ UNCHANGED serviceVars

NextSummarize == Classify \/ SummarizeOpenai

SpecSummarize == InitSummarize /\ [][NextSummarize]_vars

(***************************************************************************)
(* Raw Gmail messages (mailminder/preprocess.py): the header map and its   *)
(* cache, the walk over the MIME parts, clean_gmail_message                *)
(***************************************************************************)
\* The base64 alphabet; urlsafe_b64decode reads '-' and '_' as '+' and '/'
\* and the decoder also takes '+' and '/' themselves
B64Chars == "ABCDEFGHIJKLMNOPQRSTUVWXYZabcdefghijklmnopqrstuvwxyz0123456789"

B64Value ==
    [c \in CharsOf(B64Chars) |-> (CHOOSE i \in 1..Len(B64Chars) : CharAt(B64Chars, i) = c) - 1]
    @@ ("-" :> 62) @@ ("+" :> 62) @@ ("_" :> 63) @@ ("/" :> 63)

\* The bytes base64.urlsafe_b64decode returns, or its binascii.Error: the
\* decoder skips what is outside the alphabet, stops at the padding that
\* completes a quad and fails when the data characters do not fill one.
\* quad is the position in the quad, left the bits carried, pads the '='
\* seen since the last data character.
RECURSIVE A2bBase64(_, _, _, _, _, _)
A2bBase64(data, i, quad, left, pads, out) ==
    IF i > Len(data) THEN [failed |-> quad # 0, bytes |-> out]
    ELSE LET c == CharAt(data, i)
         IN IF c = "="
            THEN IF quad >= 2 /\ quad + pads + 1 >= 4
                 THEN [failed |-> FALSE, bytes |-> out]
                 ELSE A2bBase64(data, i + 1, quad, left,
                                IF quad >= 2 THEN pads + 1 ELSE pads, out)
            ELSE IF c \notin DOMAIN B64Value
            THEN A2bBase64(data, i + 1, quad, left, pads, out)
            ELSE LET v == B64Value[c]
                 IN CASE quad = 0 -> A2bBase64(data, i + 1, 1, v, 0, out)
                      [] quad = 1 -> A2bBase64(data, i + 1, 2, v % 16, 0,
                                               Append(out, left * 4 + v \div 16))
                      [] quad = 2 -> A2bBase64(data, i + 1, 3, v % 4, 0,
                                               Append(out, left * 16 + v \div 4))
                      [] quad = 3 -> A2bBase64(data, i + 1, 0, 0, 0,
                                               Append(out, left * 64 + v))

\* The ASCII characters 32 to 126 in order; the grave accent (96) cannot be
\* written in a string here and "?" holds its place
AsciiPrintable ==
    " !\"#$%&'()*+,-./0123456789:;<=>?@ABCDEFGHIJKLMNOPQRSTUVWXYZ[\\]^_?abcdefghijklmnopqrstuvwxyz{|}~"

\* bytes.decode("utf-8", errors="replace") on ASCII text; "?" stands for the
\* replacement character a byte outside ASCII text is decoded to
ByteChar(b) ==
    IF 32 <= b /\ b <= 126 THEN CharAt(AsciiPrintable, b - 31)
    ELSE IF b = 10 THEN "\n"
    ELSE IF b = 13 THEN "\r"
    ELSE IF b = 9 THEN "\t"
    ELSE "?"

RECURSIVE Utf8Text(_, _)
Utf8Text(bytes, i) ==
    IF i > Len(bytes) THEN "" ELSE ByteChar(bytes[i]) \o Utf8Text(bytes, i + 1)

\* The try/except of _decode_part: the decoded text, "" when decoding raises
DecodeData(data) ==
    LET got == A2bBase64(data, 1, 0, 0, 0, <<>>)
    IN IF got.failed THEN "" ELSE Utf8Text(got.bytes, 1)

\* One MIME part: its mimeType, its body.data (None when absent), its parts
Part(mime, data, parts) == [mimeType |-> mime, data |-> data, parts |-> parts]

RECURSIVE _decode_part(_)
RECURSIVE FirstSubText(_, _)

\* for sub in part.get("parts", []): the first non-empty text of a sub-part
FirstSubText(parts, i) ==
    IF i > Len(parts) THEN ""
    ELSE LET text == _decode_part(parts[i])
         IN IF text # "" THEN text ELSE FirstSubText(parts, i + 1)

\* a variant that takes text/plain parts only
DecodePartPlainOnly(part) ==
    IF Truthy(part.data) /\ part.mimeType = "text/plain"
    THEN DecodeData(part.data.s)
    ELSE FirstSubText(part.parts, 1)

\* The text of a textual part that carries a payload, else of its sub-parts
_decode_part(part) ==
    IF Truthy(part.data) /\ StartsWith(part.mimeType, "text/")
    THEN DecodeData(part.data.s)
    ELSE FirstSubText(part.parts, 1)

\* One header of payload.headers
Header(name, value) == [name |-> name, value |-> value]

\* str(tuple(sorted((name, value) ...))): the sorted tuple, and so its text,
\* is one per multiset of pairs; the key is that multiset, each pair with
\* the number of times it occurs
HeaderKey(hs) ==
    [p \in {hs[i] : i \in 1..Len(hs)} |-> Cardinality({i \in 1..Len(hs) : hs[i] = p})]

\* {h["name"]: h["value"] for h in headers}: the last value of a name stays
HeaderDict(hs) ==
    [n \in {hs[i].name : i \in 1..Len(hs)} |->
        hs[CHOOSE i \in 1..Len(hs) :
              hs[i].name = n /\ \A j \in (i + 1)..Len(hs) : hs[j].name # n].value]

\* _HEADER_MAP_CACHE after the call
CacheAfter(hs, held) ==
    IF HeaderKey(hs) \in DOMAIN held THEN held ELSE held @@ (HeaderKey(hs) :> HeaderDict(hs))

_headers_to_dict(hs, held) == CacheAfter(hs, held)[HeaderKey(hs)]

\* clean_gmail_message: the fields of its result that come from the text of
\* the message, and body_raw, the text handed to clean_email
clean_gmail_message(msg, held) ==
    LET hdrs == [given |-> TRUE, map |-> _headers_to_dict(msg.headers, held)]
        decoded == _decode_part(msg.payload)
        body_raw == IF decoded # "" THEN decoded ELSE PyOr(msg.snippet, PyStr("")).s
        done == clean_email(HeaderGet(hdrs, "Subject"), body_raw, hdrs)
    IN [subject |-> done.subject,
        from |-> HeaderGet(hdrs, "From"),
        body |-> done.body,
        headers |-> hdrs.map,
        body_raw |-> body_raw]

(***************************************************************************)
(* clean_gmail_message called on one raw message after another             *)
(***************************************************************************)
\* Most messages that differ from all others in a Message-ID header
MaxIds == 2

\* payload.headers of the messages
HeaderLists ==
    {<<>>,
     <<Header("Subject", "Hi"), Header("From", "a@b.c")>>,
     <<Header("From", "a@b.c"), Header("Subject", "Hi")>>,
     <<Header("Subject", "Hi"), Header("Subject", "Yo")>>,
     <<Header("Subject", "Yo"), Header("Subject", "Hi")>>,
     <<Header("Subject", "  "), Header("From", "a@b.c")>>,
     <<Header("From", "")>>}
    \cup {<<Header("Message-ID", CharAt(Digits, n + 1)), Header("From", "a@b.c")>> : n \in 1..MaxIds}

TextPlain(data) == Part("text/plain", PyStr(data), <<>>)

\* The part trees: "UGxlYXNlIHNpZ24u" encodes "Please sign.", "aGk=" "hi",
\* "aGVsbG8=" "hello", "SGk_" "Hi?"; "aGk" cannot be decoded; "====" and
\* "!!!" decode to no text at all
Payloads ==
    {TextPlain("UGxlYXNlIHNpZ24u"),
     Part("multipart/alternative", PyNone,
          <<TextPlain("aGk="), Part("text/html", PyStr("PHA-eDwvcD4="), <<>>)>>),
     Part("multipart/mixed", PyNone,
          <<Part("image/png", PyStr("aGk="), <<>>),
            Part("multipart/alternative", PyNone,
                 <<TextPlain("aGk"), Part("text/html", PyStr("SGk_"), <<>>)>>),
            TextPlain("aGVsbG8=")>>),
     Part("multipart/mixed", PyNone, <<>>),
     Part("multipart/mixed", PyNone, <<TextPlain("aGk")>>),
     Part("multipart/mixed", PyNone,
          <<Part("multipart/related", PyNone, <<TextPlain("!!!")>>), TextPlain("aGk=")>>),
     Part("text/plain", PyStr(""), <<TextPlain("aGk=")>>),
     Part("text/plain", PyStr("===="), <<TextPlain("aGk=")>>)}

Snippets == {PyNone, PyStr(""), PyStr("snip")}

GmailMessages ==
    {[headers |-> h, payload |-> TextPlain("UGxlYXNlIHNpZ24u"), snippet |-> PyNone] :
        h \in HeaderLists}
    \cup {[headers |-> <<Header("Subject", "Hi"), Header("From", "a@b.c")>>,
           payload |-> p, snippet |-> sn] : p \in Payloads, sn \in Snippets}

InitGmail ==
    /\ pc = "start"
    /\ GmailIdle
    /\ NormalizeIdle
    /\ ExtractIdle
    /\ CleanIdle
    /\ SummarizeIdle
    /\ DbIdle
    /\ ServiceIdle

CleanGmail ==
    /\ \E msg \in GmailMessages :
          /\ gmsg' = msg
          /\ gclean' = clean_gmail_message(msg, cache)
          /\ cache' = CacheAfter(msg.headers, cache)
    /\ pc' = "gmail"
    /\ UNCHANGED <<items, result, again, body, summary_json, heur, actions>>
    /\ UNCHANGED <<subject, raw_body, headers, cleaned>>
    /\ UNCHANGED <<summarizeVars, dbVars>>
    /\ UNCHANGED serviceVars

NextGmail == CleanGmail

SpecGmail == InitGmail /\ [][NextGmail]_vars

(***************************************************************************)
(* The database helper (mailminder/db.py), the action_items table of the   *)
(* migration, and GET /health (app/api.py)                                 *)
(***************************************************************************)
\* _get_conn: whether a connection can be had, and the text of the error if not
ConnError(c) ==
    IF ~c.dsn THEN "Set DATABASE_URL before using db.py"
    ELSE IF ~c.up THEN "connection failed"
    ELSE ""

\* `with _get_conn() as conn`: a connection that was made is closed on leaving
ConnAfter(c) == IF ConnError(c) = "" THEN [c EXCEPT !.state = "closed"] ELSE c

\* A row of action_items as INSERT (message_id, title, importance) makes it,
\* the other columns at their server defaults
Row(mid, title, imp) ==
    [message_id |-> mid, title |-> title, importance |-> imp,
     is_done |-> FALSE, done_at |-> PyNone]

\* The key of the unique index ux_ai_msg_title
RowKey(r) == <<r.message_id, Lower(r.title)>>

\* SELECT lower(title) FROM action_items WHERE message_id = mid
Have(rows, mid) == {Lower(r.title) : r \in {x \in rows : x.message_id = mid}}

\* The loop that builds to_add: an item is skipped when its title is blank
\* or its lower-cased title is among the titles read before the loop
RECURSIVE ToAdd(_, _, _, _)
ToAdd(mid, its, i, have) ==
    IF i > Len(its) THEN <<>>
    ELSE LET title == Strip(PyOr(its[i].title, PyStr("")).s)
         IN IF title = "" \/ Lower(title) \in have
            THEN ToAdd(mid, its, i + 1, have)
            ELSE <<Row(mid, title, ValidImportance(its[i].importance))>>
                 \o ToAdd(mid, its, i + 1, have)

\* executemany(INSERT ...): the rows go in one after the other until one
\* collides with the unique index; failed is the position of that row, 0
\* when all went in
RECURSIVE InsertMany(_, _, _)
InsertMany(rows, adds, i) ==
    IF i > Len(adds) THEN [failed |-> 0, rows |-> rows]
    ELSE IF RowKey(adds[i]) \in {RowKey(r) : r \in rows}
    THEN [failed |-> i, rows |-> rows]
    ELSE InsertMany(rows \cup {adds[i]}, adds, i + 1)

\* What upsert_action_items did: its arguments, the table before, whether
\* it raised and on what, and the count it returned
Called(mid, its, before, error, ret) ==
    [op |-> "upsert", mid |-> mid, items |-> its, before |-> before,
     raised |-> error # "", error |-> error, ret |-> ret]

\* a variant without the try/except: the exception becomes a 500
HealthUnguarded(c) ==
    IF ConnError(c) = "" THEN [status |-> 200, ok |-> TRUE, error |-> ""]
    ELSE [status |-> 500, ok |-> FALSE, error |-> "Internal Server Error"]

\* The response of GET /health
health(c) ==
    IF ConnError(c) = "" THEN [status |-> 200, ok |-> TRUE, error |-> ""]
    ELSE [status |-> 200, ok |-> FALSE, error |-> ConnError(c)]

(***************************************************************************)
(* Calls of upsert_action_items and of GET /health, the database going     *)
(* down and coming back                                                    *)
(***************************************************************************)
MessageIds == {"m1", "m2"}

UpsertItems ==
    {[title |-> PyStr("Book flight"), importance |-> PyInt(2)],
     [title |-> PyStr(" book flight "), importance |-> PyInt(3)],
     [title |-> PyStr("Pay rent"), importance |-> PyInt(7)],
     [title |-> PyStr("  "), importance |-> PyInt(1)],
     [title |-> PyNone, importance |-> PyNone]}

UpsertLists ==
    {<<>>} \cup {<<a>> : a \in UpsertItems} \cup {<<a, b>> : a, b \in UpsertItems}

\* No call and no request is under study
NoCall == [op |-> "none"]
NoResponse == [status |-> 0]

InitDb ==
    /\ pc = "start"
    /\ conn \in [state : {"none"}, dsn : BOOLEAN, up : {TRUE}]
    /\ table = {}
    /\ call = NoCall
    /\ resp = NoResponse
    /\ NormalizeIdle
    /\ ExtractIdle
    /\ CleanIdle
    /\ SummarizeIdle
    /\ GmailIdle
    /\ ServiceIdle

\* upsert_action_items(mid, its) with no other session at work
Upsert ==
    /\ \E mid \in MessageIds, its \in UpsertLists :
          LET adds == ToAdd(mid, its, 1, Have(table, mid))
              done == InsertMany(table, adds, 1)
          IN IF its = <<>>
             THEN /\ call' = Called(mid, its, table, "", 0)
                  /\ UNCHANGED <<table, conn>>
             ELSE IF ConnError(conn) # ""
             THEN /\ call' = Called(mid, its, table, "connection", 0)
                  /\ UNCHANGED <<table, conn>>
             ELSE IF done.failed = 0
             THEN /\ call' = Called(mid, its, table, "", Len(adds))
                  /\ table' = done.rows
                  /\ conn' = ConnAfter(conn)
             ELSE \* UniqueViolation: the rows before it stay when each
                  \* statement commits on its own, and go when the batch
                  \* is one transaction
                  /\ call' = Called(mid, its, table, "unique", 0)
                  /\ table' \in {done.rows, table}
                  /\ conn' = ConnAfter(conn)
    /\ pc' = "upsert"
    /\ resp' = NoResponse
    /\ UNCHANGED <<items, result, again, body, summary_json, heur, actions>>
    /\ UNCHANGED <<subject, raw_body, headers, cleaned>>
    /\ UNCHANGED <<summarizeVars, gmailVars>>
    /\ UNCHANGED serviceVars

Health ==
    /\ resp' = health(conn)
    /\ conn' = ConnAfter(conn)
    /\ pc' = "health"
    /\ call' = NoCall
    /\ UNCHANGED <<items, result, again, body, summary_json, heur, actions>>
    /\ UNCHANGED <<subject, raw_body, headers, cleaned>>
    /\ UNCHANGED <<summarizeVars, gmailVars, table>>
    /\ UNCHANGED serviceVars

\* The database server stops or starts answering
Outage ==
    /\ conn' = [conn EXCEPT !.up = ~conn.up]
    /\ pc' = "outage"
    /\ call' = NoCall
    /\ resp' = NoResponse
    /\ UNCHANGED <<items, result, again, body, summary_json, heur, actions>>
    /\ UNCHANGED <<subject, raw_body, headers, cleaned>>
    /\ UNCHANGED <<summarizeVars, gmailVars, table>>
    /\ UNCHANGED serviceVars

NextDb == Upsert \/ Health \/ Outage

SpecDb == InitDb /\ [][NextDb]_vars

(***************************************************************************)
(* Two callers of upsert_action_items at work at the same time, each in    *)
(* its own process with its own connection: the SELECT and the INSERT of   *)
(* a call are two statements, each committed on its own                    *)
(***************************************************************************)
\* A call of upsert_action_items: where it is (called, selected, returned,
\* raised), the titles its SELECT gave, and what it returned
Session(mid, its) ==
    [mid |-> mid, items |-> its, at |-> "called", have |-> {}, ret |-> 0]

InitRace ==
    /\ pc = "start"
    /\ sessions \in {<<Session("m1", a), Session("m1", b)>> : a, b \in UpsertLists}
    /\ table \in {{}, {Row("m1", "Pay rent", 1)}}
    /\ conn = [state |-> "none", dsn |-> TRUE, up |-> TRUE]
    /\ call = NoCall
    /\ resp = NoResponse
    /\ messages = <<>>
    /\ api_key = ""
    /\ poll = NoPoll
    /\ now = 0
    /\ NormalizeIdle
    /\ ExtractIdle
    /\ CleanIdle
    /\ SummarizeIdle
    /\ GmailIdle

\* if not items: return 0; else the SELECT of the titles the message has
RaceSelect ==
    /\ \E s \in DOMAIN sessions :
          /\ sessions[s].at = "called"
          /\ sessions' = [sessions EXCEPT ![s] =
                IF @.items = <<>> THEN [@ EXCEPT !.at = "returned"]
                ELSE [@ EXCEPT !.at = "selected", !.have = Have(table, sessions[s].mid)]]
    /\ pc' = "select"
    /\ UNCHANGED <<items, result, again, body, summary_json, heur, actions>>
    /\ UNCHANGED <<subject, raw_body, headers, cleaned>>
    /\ UNCHANGED <<summarizeVars, gmailVars, dbVars, messages, api_key, poll, now>>

\* The loop that builds to_add from what the SELECT gave, and executemany:
\* a row that collides with the unique index makes it raise
RaceInsert ==
    /\ \E s \in DOMAIN sessions :
          LET mine == sessions[s]
              adds == ToAdd(mine.mid, mine.items, 1, mine.have)
              done == InsertMany(table, adds, 1)
          IN /\ mine.at = "selected"
             /\ IF adds = <<>>
                THEN /\ sessions' = [sessions EXCEPT ![s].at = "returned"]
                     /\ table' = table
                ELSE IF done.failed = 0
                THEN /\ sessions' = [sessions EXCEPT ![s].at = "returned", ![s].ret = Len(adds)]
                     /\ table' = done.rows
                ELSE /\ sessions' = [sessions EXCEPT ![s].at = "raised"]
                     /\ table' \in {done.rows, table}
    /\ pc' = "insert"
    /\ UNCHANGED <<items, result, again, body, summary_json, heur, actions>>
    /\ UNCHANGED <<subject, raw_body, headers, cleaned>>
    /\ UNCHANGED <<summarizeVars, gmailVars, conn, call, resp, messages, api_key, poll, now>>

NextRace == RaceSelect \/ RaceInsert

SpecRace == InitRace /\ [][NextRace]_vars

(***************************************************************************)
(* One polling cycle (mailminder/poller.py) with what it calls: the        *)
(* cleaning of the batch, the dev-mode summarizer and upsert_message       *)
(***************************************************************************)
\* A message as users.messages.get returns it: its id (None when the key
\* is missing), threadId, internalDate, whether labelIds holds UNREAD, and
\* the headers, payload and snippet clean_gmail_message reads
Fetched(id, thread, received, unread, hs, snippet) ==
    [id |-> id, threadId |-> thread, internalDate |-> received, unread |-> unread,
     headers |-> hs, payload |-> Part("", PyNone, <<>>), snippet |-> PyStr(snippet)]

\* The rest of clean_gmail_message's result: msg["id"] and what is built
\* from it
Cleaned(msg, c) ==
    [id |-> msg.id.s, threadId |-> msg.threadId, subject |-> c.subject, from |-> c.from,
     internalDate |-> msg.internalDate, body |-> c.body, is_read |-> ~msg.unread,
     gmail_permalink |-> "https://mail.google.com/mail/u/0/#inbox/" \o msg.id.s]

\* [clean_gmail_message(m) for m in msgs]: msg["id"] raises KeyError when a
\* message has no id, and the list is not built
RECURSIVE clean_gmail_batch(_, _, _, _)
clean_gmail_batch(msgs, i, held, out) ==
    IF i > Len(msgs) THEN [raised |-> FALSE, out |-> out, cache |-> held]
    ELSE LET after == CacheAfter(msgs[i].headers, held)
         IN IF msgs[i].id.t = "none" THEN [raised |-> TRUE, out |-> <<>>, cache |-> after]
            ELSE clean_gmail_batch(msgs, i + 1, after,
                    Append(out, Cleaned(msgs[i], clean_gmail_message(msgs[i], held))))

\* fake_summary's text; "-" stands for the dash of the source
FakeSummary(subj, btext) ==
    "[FAKE] " \o (IF subj # "" THEN subj ELSE "(no subject)") \o " - "
        \o Prefix(btext, 150) \o "..."

\* The dev-mode summarizer: the fake summary, the heuristic importance and
\* no action items
summarize_single(msg) ==
    LET subj == Strip(msg.subject)
        btext == Prefix(Strip(msg.body), MAX_BODY)
    IN [summary |-> FakeSummary(subj, btext),
        importance |-> _heuristic_importance(PyStr(subj), PyStr(btext)),
        has |-> TRUE,
        action_items |-> <<>>]

\* a variant that replaces the stored row by a new one
UpsertMessageReplace(rows, msg, summary, t) ==
    [id \in DOMAIN rows \cup {msg.id} |->
        IF id # msg.id THEN rows[id]
        ELSE [message_id |-> msg.id, user_id |-> "u1", thread_id |-> msg.threadId,
              subject |-> msg.subject, sender |-> msg.from,
              received_at |-> msg.internalDate, summary_json |-> summary,
              is_read |-> msg.is_read, gmail_permalink |-> msg.gmail_permalink,
              processed_at |-> t, importance_override |-> PyNone]]

\* INSERT INTO messages ... ON CONFLICT (message_id) DO UPDATE: a new row
\* has no importance_override; a stored row keeps its user_id, thread_id
\* and importance_override
upsert_message(rows, msg, summary, t) ==
    IF msg.id \in DOMAIN rows
    THEN [rows EXCEPT ![msg.id] =
            [@ EXCEPT !.subject = msg.subject,
                      !.sender = msg.from,
                      !.received_at = msg.internalDate,
                      !.summary_json = summary,
                      !.is_read = msg.is_read,
                      !.gmail_permalink = msg.gmail_permalink,
                      !.processed_at = t]]
    ELSE rows @@ (msg.id :>
            [message_id |-> msg.id, user_id |-> "u1", thread_id |-> msg.threadId,
             subject |-> msg.subject, sender |-> msg.from,
             received_at |-> msg.internalDate, summary_json |-> summary,
             is_read |-> msg.is_read, gmail_permalink |-> msg.gmail_permalink,
             processed_at |-> t, importance_override |-> PyNone])

\* What may go wrong while one message is handled: nothing, the summarizer
\* raises, upsert_message raises, upsert_action_items raises
Faults == {"none", "summarize", "message", "items"}

\* One entry of the record of a cycle: the call, the message, how it ended
Event(op, id, ok) == [op |-> op, id |-> id, ok |-> ok]

\* a variant that takes a message out of the count when its items fail
ItemsStepUncounted(acc, msg, its, fault, pipelined) ==
    IF fault = "items"
    THEN [acc EXCEPT !.processed = @ - 1,
                     !.log = Append(@, Event("upsert_action_items", msg.id, FALSE))]
    ELSE acc

\* The items step of one message: extract_actions (its is what it gave),
\* then upsert_action_items inside its own try when there are items.
\* extract_actions raising is caught by the outer handler; a failed INSERT
\* leaves the rows it had put in when each statement commits on its own,
\* none when the batch is one transaction (pipelined).
ItemsStep(acc, msg, its, fault, pipelined) ==
    LET list == [k \in 1..Len(its.out) |-> ItemEntry(its.out[k])]
        adds == ToAdd(msg.id, list, 1, Have(acc.table, msg.id))
        done == InsertMany(acc.table, adds, 1)
    IN IF its.raised \/ its.out = <<>> THEN acc
       ELSE IF fault = "items"
       THEN [acc EXCEPT !.log = Append(@, Event("upsert_action_items", msg.id, FALSE))]
       ELSE IF adds = <<>>
       THEN [acc EXCEPT !.log = Append(@, Event("upsert_action_items", msg.id, TRUE)),
                        !.open = FALSE]
       ELSE IF done.failed # 0
       THEN [acc EXCEPT !.log = Append(@, Event("upsert_action_items", msg.id, FALSE)),
                        !.table = IF pipelined THEN @ ELSE done.rows,
                        !.open = FALSE]
       ELSE [acc EXCEPT !.log = Append(@, Event("upsert_action_items", msg.id, TRUE)),
                        !.table = done.rows,
                        !.open = FALSE]

\* The loop of poll_once over the cleaned messages, digest[i] holding what
\* summarize_single and extract_actions give for the i-th; acc holds both
\* tables, the count, the record of the calls and whether _CONN is left
\* open
RECURSIVE PollLoop(_, _, _, _, _, _, _)
PollLoop(list, digest, faults, i, acc, t, pipelined) ==
    IF i > Len(list) THEN acc
    ELSE LET msg == list[i]
             stored == [acc EXCEPT
                          !.messages = upsert_message(acc.messages, msg, digest[i].summary, t),
                          !.processed = @ + 1,
                          !.open = TRUE,
                          !.log = Append(@, Event("upsert_message", msg.id, TRUE))]
         IN IF faults[i] = "summarize"
            THEN PollLoop(list, digest, faults, i + 1,
                    [acc EXCEPT !.log = Append(@, Event("summarize_single", msg.id, FALSE))],
                    t, pipelined)
            ELSE IF faults[i] = "message"
            THEN PollLoop(list, digest, faults, i + 1,
                    [acc EXCEPT !.log = Append(@, Event("upsert_message", msg.id, FALSE))],
                    t, pipelined)
            ELSE PollLoop(list, digest, faults, i + 1,
                    ItemsStep(stored, msg, digest[i].items, faults[i], pipelined),
                    t, pipelined)

\* What the loop computes from each cleaned message alone: the summary and
\* what extract_actions gives for it
RECURSIVE Digest(_, _)
Digest(list, i) ==
    IF i > Len(list) THEN <<>>
    ELSE LET summary == summarize_single(list[i])
         IN <<[summary |-> summary, items |-> extract_actions(summary, list[i].body)]>>
            \o Digest(list, i + 1)

\* poll_once from clean_gmail_batch on (batch is what it gave, digest what
\* the loop computes from each cleaned message): get_or_create_user has
\* closed its connection by then; the batch is cleaned before the loop and
\* outside its try, so an exception there leaves poll_once
poll_once(batch, digest, faults, rows, items_rows, t, pipelined) ==
    LET start == [messages |-> rows, table |-> items_rows, processed |-> 0,
                  log |-> <<>>, open |-> FALSE]
        done == PollLoop(batch.out, digest, faults, 1, start, t, pipelined)
    IN IF batch.raised
       THEN [stage |-> "raised", processed |-> 0, log |-> <<>>, messages |-> rows,
             table |-> items_rows, open |-> FALSE]
       ELSE [stage |-> "returned", processed |-> done.processed, log |-> done.log,
             messages |-> done.messages, table |-> done.table, open |-> done.open]

(***************************************************************************)
(* The handlers of app/api.py that write, and the key they ask for         *)
(***************************************************************************)
\* a variant that lets every request in
RequireKeyOpen(configured, x_api_key) == TRUE

\* require_key: whether the request goes on to the handler; x_api_key is
\* None when the header is missing
require_key(configured, x_api_key) ==
    ~(configured # "" /\ x_api_key # PyStr(configured))

Status(n) == [status |-> n]
Unauthorized == Status(401)

\* A request body of PATCH /api/messages/{id}: given tells whether
\* importance_override is among the fields sent (model_fields_set)
MessagePatch(is_read, given, importance_override) ==
    [is_read |-> is_read, given |-> given, importance_override |-> importance_override]

\* update_message: the rows after, and the answer
update_message(rows, msg_id, patch, t) ==
    IF patch.is_read.t = "none" /\ ~patch.given THEN [rows |-> rows, resp |-> Status(400)]
    ELSE IF msg_id \notin DOMAIN rows THEN [rows |-> rows, resp |-> Status(404)]
    ELSE LET old == rows[msg_id]
             new == [old EXCEPT
                       !.is_read = IF patch.is_read.t = "none" THEN @ ELSE patch.is_read.n = 1,
                       !.importance_override =
                           IF patch.given THEN patch.importance_override ELSE @,
                       !.processed_at = t]
         IN [rows |-> [rows EXCEPT ![msg_id] = new],
             resp |-> [status |-> 200, row |-> new]]

\* Whether the rows hold the key of r twice or r points at no message
Rejected(rows, r, msgs) ==
    \/ r.message_id \notin DOMAIN msgs
    \/ RowKey(r) \in {RowKey(x) : x \in rows}

\* create_action_item: INSERT (message_id, title, importance) RETURNING; a
\* key that is there or a message that is not makes the statement fail
create_action_item(rows, msgs, item) ==
    LET r == Row(item.message_id, item.title, item.importance)
    IN IF Rejected(rows, r, msgs) THEN [rows |-> rows, resp |-> Status(500)]
       ELSE [rows |-> rows \cup {r}, resp |-> [status |-> 200, row |-> r]]

\* A request body of PATCH /api/action-items/{id}; None is a field not sent
ActionItemPatch(title, importance, is_done) ==
    [title |-> title, importance |-> importance, is_done |-> is_done]

\* a variant that leaves done_at as it is
DoneAtKept(old, done, t) == old

\* done_at = (CASE WHEN %(done)s THEN now() ELSE NULL END)
DoneAt(old, done, t) == IF done THEN PyInt(t) ELSE PyNone

\* update_action_item on the row ai_id names (found says whether there is
\* one): the rows after, and the answer
update_action_item(rows, found, old, patch, t) ==
    IF patch.title.t = "none" /\ patch.importance.t = "none" /\ patch.is_done.t = "none"
    THEN [rows |-> rows, resp |-> Status(400)]
    ELSE IF ~found THEN [rows |-> rows, resp |-> Status(404)]
    ELSE LET new == [old EXCEPT
                       !.title = IF patch.title.t = "none" THEN @ ELSE patch.title.s,
                       !.importance = IF patch.importance.t = "none" THEN @
                                      ELSE patch.importance.n,
                       !.is_done = IF patch.is_done.t = "none" THEN @
                                   ELSE patch.is_done.n = 1,
                       !.done_at = IF patch.is_done.t = "none" THEN @
                                   ELSE DoneAt(@, patch.is_done.n = 1, t)]
         IN IF RowKey(new) \in {RowKey(x) : x \in rows \ {old}}
            THEN [rows |-> rows, resp |-> Status(500)]
            ELSE [rows |-> (rows \ {old}) \cup {new}, resp |-> [status |-> 200, row |-> new]]

\* delete_action_item
delete_action_item(rows, found, old) ==
    IF ~found THEN [rows |-> rows, resp |-> Status(404)]
    ELSE [rows |-> rows \ {old}, resp |-> [status |-> 200, ok |-> TRUE]]

(***************************************************************************)
(* The handlers of app/api.py that read                                    *)
(***************************************************************************)
\* IMPORTANCE_EXPR: the override wins, else the label of the summary
ImportanceNum(row) ==
    IF row.importance_override.t # "none" THEN row.importance_override.n
    ELSE CASE row.summary_json.importance = "high" -> 3
           [] row.summary_json.importance = "normal" -> 2
           [] row.summary_json.importance = "low" -> 1
           [] OTHER -> 0

\* get_message
get_message(rows, msg_id) ==
    IF msg_id \notin DOMAIN rows THEN Status(404)
    ELSE [status |-> 200, id |-> msg_id, is_read |-> rows[msg_id].is_read,
          importance |-> ImportanceNum(rows[msg_id]),
          importance_override |-> rows[msg_id].importance_override]

\* list_messages with min_importance: the total of the rows that pass
list_messages(rows, min_importance) ==
    [status |-> 200,
     total |-> Cardinality({id \in DOMAIN rows :
                  min_importance <= 0 \/ ImportanceNum(rows[id]) >= min_importance})]

\* list_action_items with is_done ("0", "1", or None for all)
list_action_items(rows, is_done) ==
    [status |-> 200,
     total |-> Cardinality({r \in rows :
                  is_done.t = "none" \/ r.is_done = (is_done.s = "1")})]

(***************************************************************************)
(* Polling cycles run from the command line (cli.py, ingest.poll)          *)
(***************************************************************************)
\* now() goes up to this
MaxClock == 1

\* most messages a cycle fetches
MaxFetched == 2

Hi == <<Header("Subject", "Hi"), Header("From", "a@b.c")>>

\* The messages Gmail returns: two with a request in the body, one
\* without an id
FirstMessage == Fetched(PyStr("m1"), "t1", 1, TRUE, Hi, "Please fix the bug.")

FetchedMessages ==
    {FirstMessage,
     Fetched(PyStr("m2"), "t2", 2, FALSE, Hi, "Pay rent asap!"),
     Fetched(PyNone, "t3", 3, TRUE, Hi, "Please sign here.")}

Inboxes == UNION {[1..n -> FetchedMessages] : n \in 0..MaxFetched}

\* The first message as Gmail gives it once it was read and moved to
\* another thread
Resent == Fetched(PyStr("m1"), "t9", 1, FALSE, Hi, "Please fix the bug.")

\* The mailbox holds one message when POST /api/poll is served
ApiInboxes == {<<FirstMessage>>, <<Resent>>}

\* _HEADER_MAP_CACHE as it can be: empty, or holding the one header list
Caches == {<<>>, CacheAfter(Hi, <<>>)}

\* clean_gmail_batch on each inbox and cache, and what the loop computes
\* from each cleaned message, worked out once
Batches ==
    {LET batch == clean_gmail_batch(inbox, 1, held, <<>>)
     IN [inbox |-> inbox, held |-> held, batch |-> batch, digest |-> Digest(batch.out, 1)] :
        inbox \in Inboxes \cup ApiInboxes, held \in Caches}

\* What a cycle on this inbox, with these faults, does to the state
Cycle(inbox, faults, pipelined) ==
    \E given \in {b \in Batches : b.inbox = inbox /\ b.held = cache} :
    \E cycle \in {poll_once(given.batch, given.digest, faults, messages, table, now, pipelined)} :
       /\ poll' = [stage |-> cycle.stage, inbox |-> inbox, faults |-> faults,
                   processed |-> cycle.processed, log |-> cycle.log]
       /\ messages' = cycle.messages
       /\ table' = cycle.table
       /\ cache' = given.batch.cache
       /\ conn' = [conn EXCEPT !.state = IF cycle.open THEN "open" ELSE "closed"]

InitPoll ==
    /\ pc = "idle"
    /\ api_key = ""
    /\ messages = <<>>
    /\ table = {}
    /\ poll = NoPoll
    /\ sessions = <<>>
    /\ now = 0
    /\ conn = [state |-> "none", dsn |-> TRUE, up |-> TRUE]
    /\ call = [op |-> "none"]
    /\ resp = [status |-> 0]
    /\ NormalizeIdle
    /\ ExtractIdle
    /\ CleanIdle
    /\ SummarizeIdle
    /\ GmailIdle

\* n = poller.poll_once(...)
CliPoll ==
    /\ pc = "idle"
    /\ \E inbox \in Inboxes, pipelined \in BOOLEAN :
          \E faults \in [1..Len(inbox) -> Faults] : Cycle(inbox, faults, pipelined)
    /\ pc' = "polled"
    /\ UNCHANGED <<items, result, again, body, summary_json, heur, actions>>
    /\ UNCHANGED <<subject, raw_body, headers, cleaned>>
    /\ UNCHANGED <<summarizeVars, gmsg, gclean, call, resp, api_key, sessions, now>>

\* The command ends
CliExit ==
    /\ pc = "polled"
    /\ pc' = "idle"
    /\ poll' = NoPoll
    /\ UNCHANGED <<items, result, again, body, summary_json, heur, actions>>
    /\ UNCHANGED <<subject, raw_body, headers, cleaned>>
    /\ UNCHANGED <<summarizeVars, gmailVars, dbVars, messages, api_key, sessions, now>>

\* Time passes
Tick ==
    /\ pc = "idle"
    /\ now < MaxClock
    /\ now' = now + 1
    /\ UNCHANGED <<pc, items, result, again, body, summary_json, heur, actions>>
    /\ UNCHANGED <<subject, raw_body, headers, cleaned>>
    /\ UNCHANGED <<summarizeVars, gmailVars, dbVars, messages, api_key, poll, sessions>>

NextPoll == CliPoll \/ CliExit \/ Tick

SpecPoll == InitPoll /\ [][NextPoll]_vars

(***************************************************************************)
(* Requests to the API, handled one at a time                              *)
(***************************************************************************)
\* MAILMINDER_API_KEY, and the X-API-Key header of a request
ApiKeys == {"", "s3cret"}
XApiKeys == {PyNone, PyStr("s3cret"), PyStr("guess")}

MessagePatches ==
    {MessagePatch(PyNone, FALSE, PyNone),
     MessagePatch(PyBool(TRUE), FALSE, PyNone),
     MessagePatch(PyNone, TRUE, PyInt(3)),
     MessagePatch(PyNone, TRUE, PyNone)}

NewItems ==
    {[message_id |-> "m1", title |-> "Call Bob", importance |-> 1],
     [message_id |-> "m9", title |-> "Call Bob", importance |-> 1]}

ItemPatches ==
    {ActionItemPatch(PyNone, PyNone, PyNone),
     ActionItemPatch(PyNone, PyNone, PyBool(TRUE)),
     ActionItemPatch(PyNone, PyNone, PyBool(FALSE)),
     ActionItemPatch(PyNone, PyInt(3), PyNone)}

\* An id of action_items that names no row
NoRow == [message_id |-> "", title |-> "", importance |-> 0, is_done |-> FALSE, done_at |-> PyNone]

\* The requests a client may send; a row of action_items stands for its id
Requests ==
    LET on(op, key) == [op |-> op, key |-> key]
    IN UNION {
         {on("POST /api/poll", key)}
         \cup {on("PATCH /api/messages/{msg_id}", key) @@ [msg_id |-> id, patch |-> p] :
                  id \in {"m1", "m9"}, p \in MessagePatches}
         \cup {on("POST /api/action-items", key) @@ [item |-> it] : it \in NewItems}
         \cup {on("PATCH /api/action-items/{ai_id}", key) @@ [row |-> r, patch |-> p] :
                  r \in table \cup {NoRow}, p \in ItemPatches}
         \cup {on("DELETE /api/action-items/{ai_id}", key) @@ [row |-> r] :
                  r \in table \cup {NoRow}}
         \cup {on("GET /api/messages", key) @@ [min_importance |-> n] : n \in {0, 3}}
         \cup {on("GET /api/messages/{msg_id}", key) @@ [msg_id |-> id] : id \in {"m1", "m9"}}
         \cup {on("GET /api/action-items", key) @@ [is_done |-> d] : d \in {PyNone, PyStr("1")}}
         : key \in XApiKeys}


InitApi ==
    /\ pc = "idle"
    /\ api_key \in ApiKeys
    /\ messages = <<>>
    /\ table = {}
    /\ poll = NoPoll
    /\ sessions = <<>>
    /\ now = 0
    /\ conn = [state |-> "none", dsn |-> TRUE, up |-> TRUE]
    /\ call = [op |-> "none"]
    /\ resp = [status |-> 0]
    /\ NormalizeIdle
    /\ ExtractIdle
    /\ CleanIdle
    /\ SummarizeIdle
    /\ GmailIdle

\* A request arrives
Receive ==
    /\ pc = "idle"
    /\ call' \in Requests
    /\ pc' = "pending"
    /\ UNCHANGED <<items, result, again, body, summary_json, heur, actions>>
    /\ UNCHANGED <<subject, raw_body, headers, cleaned>>
    /\ UNCHANGED <<summarizeVars, gmailVars, conn, table, resp, serviceVars>>

\* POST /api/poll
ApiPoll ==
    /\ pc = "pending"
    /\ call.op = "POST /api/poll"
    /\ IF ~require_key(api_key, call.key)
       THEN /\ resp' = Unauthorized
            /\ UNCHANGED <<messages, table, cache, conn, poll>>
       ELSE /\ \E inbox \in ApiInboxes, pipelined \in BOOLEAN :
                  \E faults \in [1..Len(inbox) -> Faults] : Cycle(inbox, faults, pipelined)
            /\ resp' = IF poll'.stage = "raised" THEN Status(500)
                       ELSE [status |-> 200, ok |-> TRUE, processed |-> poll'.processed]
    /\ pc' = "handled"
    /\ UNCHANGED <<items, result, again, body, summary_json, heur, actions>>
    /\ UNCHANGED <<subject, raw_body, headers, cleaned>>
    /\ UNCHANGED <<summarizeVars, gmsg, gclean, call, api_key, sessions, now>>

\* PATCH /api/messages/{msg_id}
UpdateMessage ==
    /\ pc = "pending"
    /\ call.op = "PATCH /api/messages/{msg_id}"
    /\ LET done == update_message(messages, call.msg_id, call.patch, now)
       IN IF ~require_key(api_key, call.key)
          THEN resp' = Unauthorized /\ UNCHANGED <<messages, conn>>
          ELSE /\ resp' = done.resp
               /\ messages' = done.rows
               /\ conn' = IF done.resp.status = 400 THEN conn ELSE ConnAfter(conn)
    /\ pc' = "handled"
    /\ UNCHANGED <<items, result, again, body, summary_json, heur, actions>>
    /\ UNCHANGED <<subject, raw_body, headers, cleaned>>
    /\ UNCHANGED <<summarizeVars, gmailVars, table, call, api_key, poll, sessions, now>>

\* POST /api/action-items
CreateActionItem ==
    /\ pc = "pending"
    /\ call.op = "POST /api/action-items"
    /\ LET done == create_action_item(table, messages, call.item)
       IN IF ~require_key(api_key, call.key)
          THEN resp' = Unauthorized /\ UNCHANGED <<table, conn>>
          ELSE /\ resp' = done.resp
               /\ table' = done.rows
               /\ conn' = ConnAfter(conn)
    /\ pc' = "handled"
    /\ UNCHANGED <<items, result, again, body, summary_json, heur, actions>>
    /\ UNCHANGED <<subject, raw_body, headers, cleaned>>
    /\ UNCHANGED <<summarizeVars, gmailVars, call, serviceVars>>

\* PATCH /api/action-items/{ai_id}
UpdateActionItem ==
    /\ pc = "pending"
    /\ call.op = "PATCH /api/action-items/{ai_id}"
    /\ LET done == update_action_item(table, call.row \in table, call.row, call.patch, now)
       IN IF ~require_key(api_key, call.key)
          THEN resp' = Unauthorized /\ UNCHANGED <<table, conn>>
          ELSE /\ resp' = done.resp
               /\ table' = done.rows
               /\ conn' = IF done.resp.status = 400 THEN conn ELSE ConnAfter(conn)
    /\ pc' = "handled"
    /\ UNCHANGED <<items, result, again, body, summary_json, heur, actions>>
    /\ UNCHANGED <<subject, raw_body, headers, cleaned>>
    /\ UNCHANGED <<summarizeVars, gmailVars, call, serviceVars>>

\* DELETE /api/action-items/{ai_id}
DeleteActionItem ==
    /\ pc = "pending"
    /\ call.op = "DELETE /api/action-items/{ai_id}"
    /\ LET done == delete_action_item(table, call.row \in table, call.row)
       IN IF ~require_key(api_key, call.key)
          THEN resp' = Unauthorized /\ UNCHANGED <<table, conn>>
          ELSE /\ resp' = done.resp
               /\ table' = done.rows
               /\ conn' = ConnAfter(conn)
    /\ pc' = "handled"
    /\ UNCHANGED <<items, result, again, body, summary_json, heur, actions>>
    /\ UNCHANGED <<subject, raw_body, headers, cleaned>>
    /\ UNCHANGED <<summarizeVars, gmailVars, call, serviceVars>>

\* GET /api/messages, /api/messages/{msg_id} and /api/action-items: no
\* key is asked for
Read ==
    /\ pc = "pending"
    /\ \/ /\ call.op = "GET /api/messages"
          /\ resp' = list_messages(messages, call.min_importance)
       \/ /\ call.op = "GET /api/messages/{msg_id}"
          /\ resp' = get_message(messages, call.msg_id)
       \/ /\ call.op = "GET /api/action-items"
          /\ resp' = list_action_items(table, call.is_done)
    /\ conn' = ConnAfter(conn)
    /\ pc' = "handled"
    /\ UNCHANGED <<items, result, again, body, summary_json, heur, actions>>
    /\ UNCHANGED <<subject, raw_body, headers, cleaned>>
    /\ UNCHANGED <<summarizeVars, gmailVars, table, call, serviceVars>>

\* The response is sent
Reply ==
    /\ pc = "handled"
    /\ pc' = "idle"
    /\ call' = [op |-> "none"]
    /\ resp' = [status |-> 0]
    /\ poll' = NoPoll
    /\ UNCHANGED <<items, result, again, body, summary_json, heur, actions>>
    /\ UNCHANGED <<subject, raw_body, headers, cleaned>>
    /\ UNCHANGED <<summarizeVars, gmailVars, conn, table, messages, api_key, sessions, now>>

NextApi ==
    \/ Receive
    \/ ApiPoll
    \/ UpdateMessage
    \/ CreateActionItem
    \/ UpdateActionItem
    \/ DeleteActionItem
    \/ Read
    \/ Reply
    \/ Tick

SpecApi == InitApi /\ [][NextApi]_vars

(***************************************************************************)
(* Claims on the summarizer                                                *)
(***************************************************************************)
\* The text `x or ""` leaves of a subject or body that may be None
TextOf(v) == IF v.t = "str" THEN v.s ELSE ""

UrgencyTerms == {"urgent", "asap", "action required", "payment", "invoice", "deadline"}

HasUrgencyTerm(msg) ==
    \E term \in UrgencyTerms :
        \/ Contains(Lower(TextOf(msg.subject)), term)
        \/ Contains(Lower(TextOf(msg.body)), term)

\* C11: _heuristic_importance returns "high" exactly when the lower-cased
\* subject or the lower-cased body holds one of urgent, asap, action required,
\* payment, invoice, deadline, and "normal" otherwise, a None subject or body
\* included; it never returns "low".  Scenario 4: the subject "Urgent: sign
\* contract" gives "high", "Weekly newsletter" with a body free of the terms
\* gives "normal".
C11_HighIffUrgencyTerm ==
    pc = "classified" =>
        /\ verdict \in {"high", "normal"}
        /\ verdict = "high" <=> HasUrgencyTerm(mail)
        /\ mail.subject = PyStr("Urgent: sign contract") => verdict = "high"
        /\ (mail.subject = PyStr("Weekly newsletter")
              /\ mail.body = PyStr("Nothing pressing this week.")) => verdict = "normal"

\* A None subject with an urgency term in mixed case in the body is classified high
C11_Witness ==
    /\ pc = "classified"
    /\ mail.subject = PyNone
    /\ mail.body = PyStr("Action Required: confirm the payment.")
    /\ verdict = "high"

\* C16: summarize_single_openai never raises and always returns a summary
\* result with a non-empty summary, an importance among low, normal, high and
\* a list of action items, whatever the model call does.
C16_AlwaysSummaryResult ==
    llm.kind # "none" =>
        /\ ~summarized.raised
        /\ summarized.out.summary # ""
        /\ summarized.out.importance \in {"low", "normal", "high"}
        /\ summarized.out.action_items.t = "list"

(***************************************************************************)
(* Claims on malformed action entries                                      *)
(***************************************************************************)
\* The entry is a str or a record whose title (else task) is missing or blank
BlankTitle(it) == it.k # "other" /\ WordedTitle(it) = ""

\* The entry is a record whose importance is an integer outside 0..3
OutOfRange(it) ==
    it.k = "dict" /\ it.importance.t = "int" /\ it.importance.n \notin 0..3

\* C14 as worded: an entry with a missing or blank title, or with an
\* out-of-range importance, produces no output item.
C14_AsWorded ==
    Normalized =>
        \A i \in 1..Len(items) :
            (BlankTitle(items[i]) \/ OutOfRange(items[i])) => i \notin FirstIdx(items)

\* C14: normalize_items drops, without raising, every entry whose title is
\* missing or blank: the output holds at most one item per entry with a
\* non-blank title and each output title is the trimmed title of such an
\* entry.  An entry with a title and an out-of-range importance is kept, with
\* importance 2.
C14_BlankDroppedOutOfRangeKept ==
    Normalized =>
        LET titled == {i \in 1..Len(items) :
                          items[i].k # "other" /\ ~BlankTitle(items[i])}
        IN /\ Len(result.out) <= Cardinality(titled)
           /\ \A a \in 1..Len(result.out) :
                \E i \in titled : result.out[a].title = WordedTitle(items[i])
           /\ \A i \in titled :
                (OutOfRange(items[i])
                   /\ \A j \in titled :
                        j < i => Lower(WordedTitle(items[j])) # Lower(WordedTitle(items[i])))
                => \E a \in 1..Len(result.out) :
                      result.out[a] = [title |-> WordedTitle(items[i]), importance |-> 2]

\* A list with a blank entry and a titled entry of importance 4: one item comes out
C14_Witness ==
    /\ pc = "normalized"
    /\ \E i, j \in 1..Len(items) :
          /\ BlankTitle(items[i])
          /\ items[j] = DictEntry(PyStr("Pay rent"), PyNone, PyInt(4))
    /\ result.out = <<[title |-> "Pay rent", importance |-> 2]>>

\* C15: extract_actions never raises: whatever the summary result and the
\* body, it returns a list.
C15_NeverRaises ==
    pc \in {"done", "raised"} => ~actions.raised

(***************************************************************************)
(* Claims on clean_gmail_message                                           *)
(***************************************************************************)
\* The value a header map gives a name, "" when it has none
Got(map, name) == IF name \in DOMAIN map THEN map[name] ELSE ""

\* C12: the cleaned subject of every message passed through
\* clean_gmail_message is never empty: it is the trimmed Subject header, or
\* "(no subject)" when that header is missing, empty or blank, prefixed with
\* "<sender>: " when the From header is not empty.
C12_SubjectNeverEmpty ==
    pc = "gmail" =>
        LET trimmed == Strip(Got(gclean.headers, "Subject"))
            base == IF trimmed = "" THEN "(no subject)" ELSE trimmed
            sender == Got(gclean.headers, "From")
        IN /\ gclean.subject # ""
           /\ gclean.subject = (IF sender = "" THEN base ELSE sender \o ": " \o base)
           /\ gclean.from = sender

\* A message with a sender and no Subject header gets the prefixed placeholder
C12_Witness ==
    /\ pc = "gmail"
    /\ "Subject" \notin DOMAIN gclean.headers
    /\ gclean.from = "a@b.c"
    /\ gclean.subject = "a@b.c: (no subject)"

\* The concatenation of a sequence of sequences
RECURSIVE Flatten(_)
Flatten(seqs) == IF seqs = <<>> THEN <<>> ELSE Head(seqs) \o Flatten(Tail(seqs))

\* A part of type text/* that carries a payload
TextWithPayload(part) == Truthy(part.data) /\ StartsWith(part.mimeType, "text/")

\* All the parts of a tree, depth-first in pre-order
RECURSIVE PreOrder(_)
PreOrder(part) ==
    <<part>> \o Flatten([k \in 1..Len(part.parts) |-> PreOrder(part.parts[k])])

\* The same without the sub-parts of a text part that carries a payload
RECURSIVE Searched(_)
Searched(part) ==
    <<part>> \o (IF TextWithPayload(part) THEN <<>>
                 ELSE Flatten([k \in 1..Len(part.parts) |-> Searched(part.parts[k])]))

\* The decoded text of the first part of the list that is textual, carries
\* a payload and decodes to text; "" when there is none
FirstText(parts) ==
    LET hits == {k \in 1..Len(parts) :
                    TextWithPayload(parts[k]) /\ DecodeData(parts[k].data.s) # ""}
    IN IF hits = {} THEN "" ELSE DecodeData(parts[Min(hits)].data.s)

\* The text, else the snippet, else ""
OrSnippet(text, msg) == IF text # "" THEN text ELSE TextOf(msg.snippet)

C18_CacheTransparent ==
    pc = "gmail" => gclean.headers = HeaderDict(gmsg.headers)

\* C19: the cache stays below the number of distinct header sets among the
\* messages cleaned: there is a limit it never exceeds.
C19_CacheBounded ==
    Cardinality(DOMAIN cache) < Cardinality({HeaderKey(h) : h \in HeaderLists})

(***************************************************************************)
(* Claims on the database helper and on GET /health                        *)
(***************************************************************************)
\* The trimmed title of an item handed to upsert_action_items
ItemTitle(it) == Strip(TextOf(it.title))

\* The items of a call that the claim has inserted: those with a title
\* whose (message_id, lower(title)) is neither in the table before the call
\* nor the key of an earlier item of the same list
FreshItems(c) ==
    {i \in 1..Len(c.items) :
        /\ ItemTitle(c.items[i]) # ""
        /\ <<c.mid, Lower(ItemTitle(c.items[i]))>> \notin {RowKey(r) : r \in c.before}
        /\ \A j \in 1..(i - 1) :
              Lower(ItemTitle(c.items[j])) # Lower(ItemTitle(c.items[i]))}

\* C17: a call of upsert_action_items that reaches the database never fails:
\* it inserts exactly one row for each item whose (message_id, lower(title))
\* is new, skips the items whose key exists, a key repeated inside the list
\* included, returns the number of rows inserted, and leaves no two rows
\* with the same (message_id, lower(title)).
C17_SkipsEveryDuplicate ==
    (call.op = "upsert" /\ call.error # "connection") =>
        /\ ~call.raised
        /\ table = call.before
                     \cup {Row(call.mid, ItemTitle(call.items[i]),
                               ValidImportance(call.items[i].importance)) :
                             i \in FreshItems(call)}
        /\ call.ret = Cardinality(FreshItems(call))
        /\ \A r1, r2 \in table : RowKey(r1) = RowKey(r2) => r1 = r2

\* C20: GET /health answers with status 200 and a body holding "ok": true
\* when the database ping succeeds; when the ping raises, false together
\* with the text of the error.
C20_HealthAlways200 ==
    pc = "health" =>
        /\ resp.status = 200
        /\ resp.ok \in BOOLEAN
        /\ resp.ok <=> (conn.dsn /\ conn.up)
        /\ resp.ok => resp.error = ""
        /\ ~resp.ok => resp.error # ""

\* The database is down: the handler answers 200 with ok false and the error
C20_Witness ==
    /\ pc = "health"
    /\ conn.dsn
    /\ ~conn.up
    /\ resp = [status |-> 200, ok |-> FALSE, error |-> "connection failed"]

(***************************************************************************)
(* Properties of the scorer, the candidate filter and the segmenter        *)
(***************************************************************************)
HasHighHint(s) == ContainsAny(Lower(s), _HIGH_HINTS)

\* C21: every item of the heuristic body path has importance 2 or 3; when
\* sentences pass the candidate filter, each returned one has 3 exactly
\* when its lower-cased text contains asap, urgent, by eod, deadline,
\* "due " or tomorrow, and 2 otherwise (a weekday, today or a D/D date
\* alone gives 2).
C21_ImportanceTwoOrThree ==
    pc = "heuristic" =>
        /\ \A a \in 1..Len(heur) : heur[a].importance \in {2, 3}
        /\ Passing # <<>> =>
              \A a \in 1..Len(heur) :
                  heur[a].importance = (IF HasHighHint(heur[a].title) THEN 3 ELSE 2)

\* One item is urgent by "tomorrow" alone, one has a date and a weekday
\* and one has "today", both with importance 2
C21_Witness ==
    /\ pc = "heuristic"
    /\ \E a, b, c \in 1..Len(heur) :
          /\ heur[a] = [title |-> "Can you call tomorrow?", importance |-> 3]
          /\ heur[b] = [title |-> "Pay 12/5 or mon.", importance |-> 2]
          /\ SlashDate(Lower(heur[b].title)) /\ DayWord(Lower(heur[b].title))
          /\ heur[c] = [title |-> "Meet us today.", importance |-> 2]
          /\ DayWord(Lower(heur[c].title))

\* The five exclusion rules and the four inclusion rules, each on its own
TooShort(s) == Len(s) < 8
Footer(s) == Count(s, "@") > 2
Pleasantry(s) == EndsWithAny(s, <<"thanks", "thank you", "best">>)
HeaderMarker(s) == StartsWithAny(s, <<"On ", "From:", "To:", "Subject:">>)
Excluded(s) ==
    TooShort(s) \/ Footer(s) \/ Pleasantry(s) \/ HeaderMarker(s) \/ QuotedLineMatch(s)
Included(s) ==
    LET s_low == Lower(s)
    IN \/ ImperativeOpener(s_low)
       \/ ContainsAny(s_low, _ACTION_TRIGGERS)
       \/ ModalQuestion(s_low)
       \/ ActionHeader(s_low)

Accepted(s) == ~Excluded(s) /\ Included(s)

\* C22: the exclusion rules of _is_candidate precede every inclusion rule:
\* of the sentences of a body, those that pass the filter are the ones no
\* exclusion rule rejects and one inclusion rule or more matches; a
\* sentence an exclusion rule rejects never passes, whatever it contains.
C22_ExclusionsPrecede ==
    pc = "heuristic" =>
        LET sentences == Sentences
        IN /\ Passing = SelectSeq(sentences, Accepted)
           /\ \A i \in 1..Len(sentences) :
                 Excluded(sentences[i]) => ~_is_candidate(sentences[i])

\* Four of the exclusion rules each reject a sentence that an inclusion
\* rule matches, a sentence no rule matches is rejected, and the one
\* request left passes
C22_Witness ==
    /\ pc = "heuristic"
    /\ LET sentences == Sentences
       IN /\ \E i \in 1..Len(sentences) : TooShort(sentences[i]) /\ Included(sentences[i])
          /\ \E i \in 1..Len(sentences) :
                HeaderMarker(sentences[i]) /\ ~TooShort(sentences[i]) /\ Included(sentences[i])
          /\ \E i \in 1..Len(sentences) :
                QuotedLineMatch(sentences[i]) /\ ~TooShort(sentences[i]) /\ Included(sentences[i])
          /\ \E i \in 1..Len(sentences) :
                Pleasantry(sentences[i]) /\ ~TooShort(sentences[i]) /\ Included(sentences[i])
          /\ \E i \in 1..Len(sentences) : ~Excluded(sentences[i]) /\ ~Included(sentences[i])
    /\ heur = <<[title |-> "Send it.", importance |-> 2]>>

\* A request of 8 characters or more with 3 '@' is rejected beside one that
\* passes
C22_FooterWitness ==
    /\ pc = "heuristic"
    /\ LET sentences == Sentences
       IN \E i \in 1..Len(sentences) :
            Footer(sentences[i]) /\ ~TooShort(sentences[i]) /\ Included(sentences[i])
    /\ heur # <<>>
    /\ FewAts(heur)

\* The fragments of each line of the text on its own, in the order of the
\* lines
LineByLine(text) ==
    LET lines == SplitLines(text)
    IN Flatten([i \in 1..Len(lines) |-> _split_sentences(lines[i])])

\* C23: _split_sentences cuts at every line break as well as after ".",
\* "?" or "!" followed by whitespace: the fragments of a text are those
\* of its lines taken one by one, so that two lines with only a newline
\* between them are two fragments; fragments shorter than 4 characters
\* after trimming are left out.
C23_LineBreaksCut ==
    pc = "heuristic" =>
        LET sentences == Sentences
        IN /\ sentences = LineByLine(BodyText(body))
           /\ \A i \in 1..Len(sentences) :
                 Len(sentences[i]) >= 4 /\ Strip(sentences[i]) = sentences[i]

(***************************************************************************)
(* Quoted lines and the signature block                                    *)
(***************************************************************************)
\* The index of the first line that is "--" alone, the index after the
\* last line when there is none
SignatureAt(lines) ==
    LET sig == {i \in 1..Len(lines) : Strip(lines[i]) = "--"}
    IN IF sig = {} THEN Len(lines) + 1 ELSE Min(sig)

\* The lines that begin with ">" and those from the signature line on
HiddenIdx(lines) ==
    {i \in 1..Len(lines) : i >= SignatureAt(lines) \/ QuotedLineMatch(lines[i])}

\* A line without its leading whitespace and ">" marks
Unquote(line) ==
    LET rest == {i \in 1..Len(line) : ~IsSpace(CharAt(line, i)) /\ CharAt(line, i) # ">"}
    IN IF rest = {} THEN "" ELSE SubSeq(line, Min(rest), Len(line))

\* The text of the other lines, URLs removed and whitespace collapsed
VisibleText(lines) ==
    LET hidden == HiddenIdx(lines)
        shown == SelectSeq([i \in 1..Len(lines) |-> IF i \in hidden THEN "" ELSE lines[i]],
                           LAMBDA l : l # "")
    IN CollapseWhitespace(SubUrls(Join(shown, "\n"), ""))

\* The fragments of the hidden lines that occur nowhere in the visible text
HiddenOnly(lines) ==
    LET hidden == HiddenIdx(lines)
        visible == VisibleText(lines)
    IN {f \in UNION {{_split_sentences(Unquote(lines[i]))[k] :
                         k \in 1..Len(_split_sentences(Unquote(lines[i])))} : i \in hidden} :
          ~Contains(visible, f)}

\* C24: no item returned by fallback_extract_from_body contains text of a
\* line that begins with ">" or of a line at or after the first line that
\* is "--" alone.
C24_NoQuotedOrSignatureText ==
    pc = "heuristic" =>
        LET only == HiddenOnly(SplitLines(body))
        IN \A a \in 1..Len(heur) : \A f \in only : ~Contains(heur[a].title, f)

\* A request in a quoted line and one after the signature line, both left
\* out, beside a request that is returned
C24_Witness ==
    /\ pc = "heuristic"
    /\ LET lines == SplitLines(body)
           only == HiddenOnly(lines)
       IN /\ \E i \in 1..Len(lines) : i < SignatureAt(lines) /\ QuotedLineMatch(lines[i])
          /\ SignatureAt(lines) < Len(lines)
          /\ "Please pay Al." \in only /\ _is_candidate("Please pay Al.")
          /\ "Please sign it." \in only /\ _is_candidate("Please sign it.")
    /\ heur = <<[title |-> "Please call Bob.", importance |-> 2]>>

(***************************************************************************)
(* Claims on the polling cycle                                             *)
(***************************************************************************)
\* The positions of the inbox whose message was stored: neither the
\* summarizer nor upsert_message failed on it
Stored(inbox, faults) == {i \in 1..Len(inbox) : faults[i] \notin {"summarize", "message"}}

\* C25: a failure while one fetched message is handled (cleaning
\* included) does not keep the other messages of the cycle from being
\* processed and stored, and poll_once still returns normally
C25_FailuresIsolated ==
    poll.stage # "none" =>
        /\ poll.stage = "returned"
        /\ \A i \in Stored(poll.inbox, poll.faults) :
              poll.inbox[i].id.t # "none" => poll.inbox[i].id.s \in DOMAIN messages

\* The rows of action_items of one message
ItemsOf(rows, mid) == {r \in rows : r.message_id = mid}

\* C26: in a cycle upsert_action_items runs for a message only right after
\* upsert_message succeeded for it; when the summarizer or upsert_message
\* fails on every copy of a message no item of it is written and its row is
\* left alone; a failed upsert_action_items leaves the message stored at
\* this cycle's time and counted in the total
C26_ItemsAfterMessage ==
    [][(poll.stage = "none" /\ poll'.stage = "returned") =>
          LET log == poll'.log
              inbox == poll'.inbox
              faults == poll'.faults
          IN /\ \A k \in 1..Len(log) :
                   log[k].op = "upsert_action_items" =>
                       k > 1 /\ log[k - 1] = Event("upsert_message", log[k].id, TRUE)
             /\ \A i \in 1..Len(inbox) :
                   (\A j \in 1..Len(inbox) : inbox[j].id = inbox[i].id => j \notin Stored(inbox, faults)) =>
                       /\ ItemsOf(table', inbox[i].id.s) = ItemsOf(table, inbox[i].id.s)
                       /\ (inbox[i].id.s \in DOMAIN messages') = (inbox[i].id.s \in DOMAIN messages)
                       /\ inbox[i].id.s \in DOMAIN messages =>
                              messages'[inbox[i].id.s] = messages[inbox[i].id.s]
             /\ \A i \in Stored(inbox, faults) :
                   /\ inbox[i].id.s \in DOMAIN messages'
                   /\ messages'[inbox[i].id.s].processed_at = now
             /\ poll'.processed = Cardinality(Stored(inbox, faults))]_vars

\* A cycle in which the summarizer failed on one message and
\* upsert_action_items on the other, which is stored and counted, after an
\* earlier cycle wrote items
C26_Witness ==
    /\ poll.stage = "returned"
    /\ Len(poll.inbox) = 2
    /\ poll.faults = <<"summarize", "items">>
    /\ poll.inbox[1].id # poll.inbox[2].id
    /\ poll.processed = 1
    /\ poll.inbox[2].id.s \in DOMAIN messages
    /\ poll.log[Len(poll.log)] = Event("upsert_action_items", poll.inbox[2].id.s, FALSE)
    /\ ItemsOf(table, poll.inbox[1].id.s) # {}

(***************************************************************************)
(* Claims on concurrent callers of upsert_action_items                     *)
(***************************************************************************)
\* The unique index holds: no two rows share (message_id, lower(title))
KeysUnique(rows) == \A r1, r2 \in rows : RowKey(r1) = RowKey(r2) => r1 = r2

\* The items of a list that would be inserted into an empty table differ
\* from one another in their lower-cased titles
DistinctTitles(its) ==
    LET adds == ToAdd("m1", its, 1, {})
    IN \A i, j \in 1..Len(adds) : RowKey(adds[i]) = RowKey(adds[j]) => i = j

\* C27: however two calls of upsert_action_items for one message are
\* interleaved, the table never holds two rows with one
\* (message_id, lower(title)) and neither call fails (each list taken
\* alone holding no title twice)
C27_ConcurrentCallsBothSucceed ==
    /\ KeysUnique(table)
    /\ (\A s \in DOMAIN sessions : DistinctTitles(sessions[s].items)) =>
           \A s \in DOMAIN sessions : sessions[s].at # "raised"

(***************************************************************************)
(* Claims on the API                                                       *)
(***************************************************************************)
\* C28: every row of action_items has is_done exactly when it has a
\* done_at: a created row is not done and has none, a PATCH with is_done
\* true sets done_at, one with is_done false clears it, one without
\* is_done leaves both as they were
C28_DoneIffDoneAt ==
    /\ \A r \in table : r.is_done = (r.done_at # PyNone)
    /\ (pc = "handled" /\ call.op = "POST /api/action-items" /\ resp.status = 200) =>
          /\ resp.row \in table
          /\ ~resp.row.is_done
          /\ resp.row.done_at = PyNone
    /\ (pc = "handled" /\ call.op = "PATCH /api/action-items/{ai_id}" /\ resp.status = 200) =>
          /\ resp.row \in table
          /\ call.patch.is_done = PyBool(TRUE) =>
                 resp.row.is_done /\ resp.row.done_at = PyInt(now)
          /\ call.patch.is_done = PyBool(FALSE) =>
                 ~resp.row.is_done /\ resp.row.done_at = PyNone
          /\ call.patch.is_done = PyNone =>
                 resp.row.is_done = call.row.is_done /\ resp.row.done_at = call.row.done_at

\* A row that was done is set back to not done and loses its done_at
C28_Witness ==
    /\ pc = "handled"
    /\ call.op = "PATCH /api/action-items/{ai_id}"
    /\ resp.status = 200
    /\ call.row.is_done
    /\ call.patch.is_done = PyBool(FALSE)
    /\ resp.row.done_at = PyNone

\* The columns upsert_message writes on a stored row
Overwritten ==
    {"subject", "sender", "received_at", "summary_json", "is_read", "gmail_permalink",
     "processed_at"}

\* C29: a cycle that ingests a message again leaves every column of its
\* row but subject, sender, received_at, summary_json, is_read,
\* gmail_permalink and processed_at as it was, importance_override among
\* them, and leaves every action_items row the message had in the table
C29_ReingestKeepsUserEdits ==
    [][(poll.stage = "none" /\ poll'.stage = "returned") =>
          \A i \in Stored(poll'.inbox, poll'.faults) :
              LET id == poll'.inbox[i].id.s
              IN id \in DOMAIN messages =>
                    /\ \A f \in DOMAIN messages[id] \ Overwritten :
                          messages'[id][f] = messages[id][f]
                    /\ ItemsOf(table, id) \subseteq table']_vars

\* A message the user gave an importance and a done item was ingested
\* again, unread no more, from another thread
C29_Witness ==
    /\ poll.stage = "returned"
    /\ poll.inbox = <<Resent>>
    /\ poll.processed = 1
    /\ messages["m1"].importance_override = PyInt(3)
    /\ messages["m1"].thread_id = "t1"
    /\ messages["m1"].is_read
    /\ \E r \in ItemsOf(table, "m1") : r.is_done

\* The endpoints that write
WritingOps ==
    {"POST /api/poll", "PATCH /api/messages/{msg_id}", "POST /api/action-items",
     "PATCH /api/action-items/{ai_id}", "DELETE /api/action-items/{ai_id}"}

\* C30: with a key configured, a writing endpoint answers 401 and leaves
\* messages and action_items as they were unless X-API-Key equals the key;
\* a GET endpoint never changes them; with no key configured no request
\* is answered 401
C30_KeyGuardsWrites ==
    [][(pc = "pending" /\ pc' = "handled") =>
          /\ (api_key # "" /\ call.op \in WritingOps /\ call.key # PyStr(api_key)) =>
                 /\ resp'.status = 401
                 /\ messages' = messages
                 /\ table' = table
          /\ (api_key # "" /\ call.op \in WritingOps /\ call.key = PyStr(api_key)) =>
                 resp'.status # 401
          /\ call.op \notin WritingOps => messages' = messages /\ table' = table
          /\ api_key = "" => resp'.status # 401]_vars

\* A DELETE with a wrong key was answered 401 and the row it named is there
C30_Witness ==
    /\ pc = "handled"
    /\ api_key # ""
    /\ call.op = "DELETE /api/action-items/{ai_id}"
    /\ call.key = PyStr("guess")
    /\ resp.status = 401
    /\ call.row \in table

============================================================================
